---- MODULE Spec2Model ----
(***************************************************************************)
(* A model of arc.py: the debug-pod manager (KubernetesDebugPodManager),   *)
(* the five per-node operations and the fan-out of main() over the         *)
(* selected nodes, in sequential and in parallel mode.                     *)
(*                                                                         *)
(* The control plane is the set `pods`; every call the program makes to it *)
(* (create_namespaced_pod, read_namespaced_pod_status, the exec stream,    *)
(* delete_namespaced_pod) is one step of the calling thread, so that the   *)
(* worker threads of the parallel mode interleave between their calls.     *)
(***************************************************************************)
EXTENDS Naturals, Sequences, FiniteSets, TLC

\* The clock int(time.time()) takes the values 0..MaxClock during a run.
MaxClock == 1

\* max_workers=min(len(nodes), 5)
MAX_WORKERS == 5

\* Node names, as sequences of characters: "a.b.c", "a-b.c", "a.b-c", "d", "a.e".
NodeA == <<"a", ".", "b", ".", "c">>
NodeB == <<"a", "-", "b", ".", "c">>
NodeC == <<"a", ".", "b", "-", "c">>
NodeD == <<"d">>
NodeE == <<"a", ".", "e">>

\* The node lists get_nodes_from_kubernetes may return (distinct names, in order).
Selections ==
    {<<>>, <<NodeD>>, <<NodeA, NodeD>>, <<NodeA, NodeB>>, <<NodeA, NodeE>>,
     <<NodeA, NodeB, NodeC>>}

OpKinds == {"start", "stop", "reset", "download"}

\* The runs considered: operation kind, --parallel, dry run, selected nodes.
Configs ==
    {c \in [kind : OpKinds, parallel : BOOLEAN, dry : BOOLEAN, sel : Selections] :
        /\ (Len(c.sel) = 3 /\ ~c.dry => c.kind = "stop" /\ c.parallel)
        /\ (c.sel = <<NodeA, NodeB>> /\ ~c.dry => c.kind = "start" /\ c.parallel)
        /\ (c.sel = <<NodeA, NodeE>> /\ ~c.dry => c.kind = "download")}

Range(s) == {s[i] : i \in 1..Len(s)}

Min(a, b) == IF a < b THEN a ELSE b

\* node_name.replace('.', '-')
Sanitize(s) == [i \in 1..Len(s) |-> IF s[i] = "." THEN "-" ELSE s[i]]

\* f"debug-{node_name.replace('.', '-')}-{int(time.time())}"
PodName(node, t) == [base |-> Sanitize(node), ts |-> t]

\* No pod name: None, or a key that active_pods does not hold.
NoPod == [base |-> <<>>, ts |-> 0]

VARIABLES
    opkind,         \* "start" (setup + capture), "stop", "reset", "download"
    parallel,       \* args.parallel
    dry_run,        \* args.dry_run
    selected,       \* the node list get_nodes_from_kubernetes returns
    has_manager,    \* the operations are handed a debug_manager (main hands one)
    nodes,          \* main's `nodes` (start: the failed set-ups are removed)
    phase,          \* main's position: "connect", "select", "fetch", "setup",
                    \* "main", "cleanup", "end"; "aborted": main returned
                    \* before the per-node work; "crashed": an exception left main
    idx,            \* the sequential loops' index into nodes
    now,            \* int(time.time())
    pods,           \* the control plane: the debug pods that exist
    active_pods,    \* KubernetesDebugPodManager.active_pods
    task,           \* per-node operations: <<phase, node>> -> its state
    collected,      \* the operations whose result main has taken
    success_count,  \* main's success_count
    summary,        \* the summary main prints
    sweep,          \* cleanup_all_pods: the registry items still to delete
    sweep_log,      \* cleanup_all_pods: the deletes made
    interrupted,    \* a KeyboardInterrupt was delivered to the main thread
    disk,           \* the local files the downloads have written
    arg,            \* the argument of the function applied on its own
    res             \* that function's result

vars == <<opkind, parallel, dry_run, selected, nodes, phase, idx, now, pods,
          active_pods, task, collected, success_count, summary, sweep,
          sweep_log, interrupted, has_manager, arg, res, disk>>

cfgvars == <<opkind, parallel, dry_run, selected, has_manager>>

fnvars == <<arg, res>>

\* No function is applied on its own.
NoArg == [fn |-> "none"]

NoRes == [fn |-> "none"]

NoSummary == [printed |-> FALSE, total |-> 0, succeeded |-> 0, failed |-> 0, dry |-> FALSE]

InitTask ==
    [pc |-> "pending", pod |-> NoPod, obs |-> "none", step |-> "none",
     exists |-> FALSE, ret |-> "none", result |-> "none", nC |-> 0, nD |-> 0,
     delapi |-> "none", delret |-> "none", foreign |-> FALSE, reg |-> FALSE,
     created |-> FALSE, nonzero |-> FALSE, nX |-> 0, script |-> "none"]

OpsOf(kind, sel) ==
    (IF kind = "start" THEN {"setup", "main"} ELSE {"main"}) \X Range(sel)

\* main, at the point where the manager is created, before the connection
\* test and the node selection.
InitWith(c) ==
    /\ opkind = c.kind
    /\ parallel = c.parallel
    /\ dry_run = c.dry
    /\ selected = c.sel
    /\ nodes = c.sel
    /\ phase = "connect"
    /\ idx = 1
    /\ now = 0
    /\ pods = {}
    /\ active_pods = [n \in Range(c.sel) |-> NoPod]
    /\ task = [o \in OpsOf(c.kind, c.sel) |-> InitTask]
    /\ collected = {}
    /\ success_count = 0
    /\ summary = NoSummary
    /\ sweep = {}
    /\ sweep_log = {}
    /\ interrupted = FALSE
    /\ disk = {}

Init ==
    /\ \E c \in Configs : InitWith(c)
    /\ has_manager = TRUE
    /\ arg = NoArg
    /\ res = NoRes


(***************************************************************************)
(* KubernetesDebugPodManager                                               *)
(***************************************************************************)

Exists(P, name) == \E p \in P : p.name = name

\* What create_namespaced_pod can answer: the pod is created; 409 when a pod
\* of that name exists; or another API error, without a pod.
CreateOutcomes(P, name) ==
    IF Exists(P, name) THEN {"conflict", "error"} ELSE {"ok", "error"}

\* What one pass of the readiness loop can see: the loop condition is false
\* ("timeout"), or read_namespaced_pod_status answers with a phase ("ready" is
\* Running with container_statuses[0].ready), with 404, or with another error.
PollOutcomes(P, name) ==
    IF Exists(P, name)
    THEN {"pending", "running_not_ready", "ready", "failed", "succeeded",
          "apierr", "timeout"}
    ELSE {"notfound", "apierr", "timeout"}

\* What delete_namespaced_pod can answer: "ok"; "nf" (404); "err", any other
\* failure, which leaves the pod.
DeleteOutcomes(P, name) ==
    IF Exists(P, name) THEN {"ok", "err"} ELSE {"nf", "err"}

\* A readiness loop that takes phase Running for ready, without the
\* container's ready flag.
PollDecision_RunningIsReady(obs) ==
    CASE obs \in {"ready", "running_not_ready"} -> "return"
      [] obs \in {"failed", "succeeded", "apierr", "timeout"} -> "raise"
      [] OTHER -> "again"

\* The readiness loop's decision on what it saw: return the pod name, raise,
\* or sleep and poll again.
PollDecision(obs) ==
    CASE obs = "ready" -> "return"
      [] obs \in {"failed", "succeeded"} -> "raise"
      [] obs = "apierr" -> "raise"
      [] obs = "timeout" -> "raise"
      [] OTHER -> "again"

\* A delete_debug_pod that reports not-found as a failure.
DeleteReturn_NotFoundFails(api) == IF api = "ok" THEN "true" ELSE "false"

\* delete_debug_pod's return value, by what delete_namespaced_pod answered.
DeleteReturn(api) == IF api \in {"ok", "nf"} THEN "true" ELSE "false"

\* delete_debug_pod(node_name, pod_name) on registry A and control plane P,
\* when delete_namespaced_pod answers api: whether the call was made, the
\* return value, and the registry and control plane it leaves.
delete_debug_pod(A, P, node, pod_name, api) ==
    LET name == IF pod_name = NoPod THEN A[node] ELSE pod_name
    IN  IF name = NoPod
        THEN [called |-> FALSE, name |-> NoPod, api |-> "none", ret |-> "true",
              active |-> A, pods |-> P]
        ELSE [called |-> TRUE, name |-> name, api |-> api, ret |-> DeleteReturn(api),
              active |-> IF api = "ok" /\ A[node] = name
                         THEN [A EXCEPT ![node] = NoPod] ELSE A,
              pods |-> IF api = "ok"
                       THEN {p \in P : p.name # name} ELSE P]

KindOf(o) == IF o[1] = "setup" THEN "setup" ELSE opkind

Running == Cardinality({o \in DOMAIN task : task[o].pc \in {"poll", "cfail", "body", "teardown"}})

\* A sequential loop that goes on to any node of the list without waiting for
\* the call it made to return.
CanStart_OutOfOrder(o) ==
    /\ o \in DOMAIN task
    /\ task[o].pc = "pending"
    /\ phase = o[1]
    /\ IF phase = "main" /\ parallel
       THEN /\ o[2] \in Range(nodes)
            /\ Running < Min(Len(nodes), MAX_WORKERS)
       ELSE /\ ~interrupted
            /\ o[2] \in Range(nodes)

\* An executor that starts a worker for every submitted operation at once,
\* and a sequential loop that does not wait for the operation under way.
CanStart_Unbounded(o) ==
    /\ o \in DOMAIN task
    /\ task[o].pc = "pending"
    /\ phase = o[1]
    /\ o[2] \in Range(nodes)
    /\ ~interrupted

\* The operation is the next to be started: by the sequential loop, or by a
\* free worker of the pool.
CanStart(o) ==
    /\ o \in DOMAIN task
    /\ task[o].pc = "pending"
    /\ phase = o[1]
    /\ IF phase = "main" /\ parallel
       THEN /\ o[2] \in Range(nodes)
            /\ Running < Min(Len(nodes), MAX_WORKERS)
       ELSE /\ ~interrupted
            /\ idx <= Len(nodes)
            /\ o[2] = nodes[idx]

FirstStep(kind) ==
    CASE kind = "setup" -> "ls"
      [] kind = "start" -> "systemd_run"
      [] kind = "stop" -> "stop"
      [] kind = "reset" -> "reset_failed"
      [] kind = "download" -> "check"

\* An operation without the `if dry_run: return True` at its head.
StartOp_IgnoresDryRun(o) ==
    /\ CanStart(o)
    /\ \E api \in CreateOutcomes(pods, PodName(o[2], now)) :
          LET name == PodName(o[2], now)
          IN  /\ pods' = IF api = "ok"
                         THEN pods \cup {[name |-> name, owner |-> o, ready |-> FALSE]}
                         ELSE pods
              /\ task' = [task EXCEPT ![o].pc = IF api = "ok" THEN "poll" ELSE "cfail",
                                      ![o].pod = name,
                                      ![o].obs = IF api = "ok" THEN "none" ELSE api,
                                      ![o].created = (api = "ok"),
                                      ![o].nC = 1]
    /\ UNCHANGED <<cfgvars, fnvars, disk, nodes, phase, idx, now, active_pods, collected,
                   success_count, summary, sweep, sweep_log, interrupted>>

\* The operation begins. In a dry run it returns True at once. Otherwise it
\* enters debug_pod_context and create_debug_pod, which names the pod after
\* the clock and calls create_namespaced_pod.
StartOp(o) ==
    /\ CanStart(o)
    /\ dry_run \/ has_manager
    /\ IF dry_run
       THEN /\ task' = [task EXCEPT ![o].pc = "done", ![o].result = "ok"]
            /\ UNCHANGED pods
       ELSE \E api \in CreateOutcomes(pods, PodName(o[2], now)) :
            LET name == PodName(o[2], now)
            IN  /\ pods' = IF api = "ok"
                           THEN pods \cup {[name |-> name, owner |-> o, ready |-> FALSE]}
                           ELSE pods
                /\ task' = [task EXCEPT ![o].pc = IF api = "ok" THEN "poll" ELSE "cfail",
                                        ![o].pod = name,
                                        ![o].obs = IF api = "ok" THEN "none" ELSE api,
                                        ![o].created = (api = "ok"),
                                        ![o].nC = 1]
    /\ UNCHANGED <<cfgvars, fnvars, disk, nodes, phase, idx, now, active_pods, collected,
                   success_count, summary, sweep, sweep_log, interrupted>>

\* What an operation does when it is called without a debug_manager, not in a
\* dry run: setup_script_on_node, run_retis_on_node and
\* download_results_from_node raise at `if not debug_manager`; the two others
\* have no such test, and debug_manager.debug_pod_context raises
\* AttributeError inside their try, so that they return False.
NoManagerOutcome(kind) ==
    CASE kind \in {"setup", "start", "download"} -> "raise"
      [] kind \in {"stop", "reset"} -> "false"

\* The operation begins without a debug_manager.
StartOpNoManager(o) ==
    /\ CanStart(o)
    /\ ~dry_run /\ ~has_manager
    /\ LET out == NoManagerOutcome(KindOf(o))
       IN  task' = [task EXCEPT ![o].pc = IF out = "raise" THEN "raised" ELSE "done",
                                ![o].ret = "exc",
                                ![o].result = IF out = "raise" THEN "none" ELSE "fail"]
    /\ UNCHANGED <<cfgvars, fnvars, disk, nodes, phase, idx, now, pods, active_pods, collected,
                   success_count, summary, sweep, sweep_log, interrupted>>

\* One pass of the readiness loop of create_debug_pod.
Poll(o) ==
    /\ o \in DOMAIN task
    /\ task[o].pc = "poll"
    /\ \E obs \in PollOutcomes(pods, task[o].pod) :
        LET d == PollDecision(obs)
        IN  CASE d = "return" ->
                   /\ active_pods' = [active_pods EXCEPT ![o[2]] = task[o].pod]
                   /\ pods' = {IF p.name = task[o].pod THEN [p EXCEPT !.ready = TRUE] ELSE p
                               : p \in pods}
                   /\ task' = [task EXCEPT ![o].pc = "body", ![o].obs = obs,
                                           ![o].reg = TRUE,
                                           ![o].step = FirstStep(KindOf(o))]
              [] d = "raise" ->
                   /\ task' = [task EXCEPT ![o].pc = "cfail", ![o].obs = obs]
                   /\ UNCHANGED <<active_pods, pods>>
              [] OTHER -> UNCHANGED <<active_pods, pods, task>>
    /\ UNCHANGED <<cfgvars, fnvars, disk, nodes, phase, idx, now, collected, success_count,
                   summary, sweep, sweep_log, interrupted>>

\* A create_debug_pod whose handler raises without the clean-up.
CreateFail_NoCleanup(o) ==
    /\ o \in DOMAIN task
    /\ task[o].pc = "cfail"
    /\ task' = [task EXCEPT ![o].pc = "done", ![o].result = "fail",
                            ![o].ret = "exc", ![o].obs = "none"]
    /\ UNCHANGED <<cfgvars, fnvars, disk, nodes, phase, idx, now, pods, active_pods, collected,
                   success_count, summary, sweep, sweep_log, interrupted>>

\* create_debug_pod's `except Exception`: delete_debug_pod(node_name, pod_name),
\* then the exception leaves create_debug_pod and debug_pod_context (whose
\* pod_name is still None), and the operation's own handler returns False.
CreateFail(o) ==
    /\ o \in DOMAIN task
    /\ task[o].pc = "cfail"
    /\ \E api \in DeleteOutcomes(pods, task[o].pod) :
        LET d == delete_debug_pod(active_pods, pods, o[2], task[o].pod, api)
        IN  /\ active_pods' = d.active
            /\ pods' = d.pods
            /\ task' = [task EXCEPT ![o].pc = "done", ![o].result = "fail",
                                    ![o].ret = "exc", ![o].obs = "none",
                                    ![o].nD = @ + (IF d.called THEN 1 ELSE 0),
                                    ![o].delapi = d.api, ![o].delret = d.ret]
    /\ UNCHANGED <<cfgvars, fnvars, disk, nodes, phase, idx, now, collected, success_count,
                   summary, sweep, sweep_log, interrupted>>


(***************************************************************************)
(* The per-node operations: the body run inside debug_pod_context          *)
(***************************************************************************)

\* What the exec stream of one command can do: the connection cannot be set
\* up, the channel fails, the request times out (stream raises in the three
\* cases); or stream returns the text the command wrote, whether the command
\* exited with status zero or not (the exit status is not part of the text,
\* and nothing reads it). A command runs only in a pod that exists.
ChannelOutcomes(alive) ==
    {"setup_fail", "chan_fail", "timeout"} \cup
        (IF alive THEN {"exit0", "nonzero"} ELSE {})

\* An execute_command that lets the exception of the stream go on to its
\* caller.
execute_command_Propagates(A, node, chan) ==
    IF A[node] = NoPod \/ chan \notin {"exit0", "nonzero"}
    THEN [raised |-> TRUE, called |-> A[node] # NoPod, success |-> FALSE,
          stdout |-> "", stderr |-> "", exit |-> "none"]
    ELSE [raised |-> FALSE, called |-> TRUE, success |-> TRUE,
          stdout |-> "resp", stderr |-> "", exit |-> chan]

\* execute_command(node_name, command) on registry A, when the stream does
\* chan: whether it raised, whether the exec call was made, and the tuple
\* (success, stdout, stderr) it returned; stdout "resp" is the stream's
\* text. `exit` is the command's exit status, which the caller does not get.
execute_command(A, node, chan) ==
    IF A[node] = NoPod
    THEN [raised |-> TRUE, called |-> FALSE, success |-> FALSE,
          stdout |-> "", stderr |-> "", exit |-> "none"]
    ELSE IF chan \in {"exit0", "nonzero"}
    THEN [raised |-> FALSE, called |-> TRUE, success |-> TRUE,
          stdout |-> "resp", stderr |-> "", exit |-> chan]
    ELSE [raised |-> FALSE, called |-> TRUE, success |-> FALSE,
          stdout |-> "", stderr |-> "Command execution failed", exit |-> "none"]

\* What the caller finds in the text of a command that stream returned: for
\* `ls -la` a listing with or without an x among its first ten characters
\* (with status zero), or an error message or nothing (non-zero); for
\* `systemctl status` one of the interpretations of the text; for the
\* `base64` of a pull, text that decodes to the file ("ok"), that does not
\* decode ("corrupt"), that decodes to something else ("garbage": an error
\* message whose letters happen to be well-formed base64), or a local write
\* that raises ("write_exc").
Replies(step, chan) ==
    CASE step = "ls" -> IF chan = "exit0" THEN {"exec", "nonexec"}
                        ELSE {"nonexec", "empty"}
      [] step = "status" -> {"st_failed", "st_running", "st_done_ok",
                             "st_done_err", "st_unknown"}
      [] step = "pull" -> IF chan = "exit0" THEN {"ok", "corrupt", "write_exc"}
                          ELSE {"corrupt", "garbage"}
      [] OTHER -> {"ok"}

\* The failures a step can meet before any exec call: copy_file_to_pod cannot
\* read the local script; os.makedirs raises in download_results_from_node.
LocalOutcomes(step) ==
    CASE step = "push_mkdir" -> {"open_error"}
      [] step = "pull" -> {"makedirs_exc"}
      [] OTHER -> {}

\* The outcomes that are met before any exec call of the step is made.
MadeExec(out) == out \notin {"open_error", "makedirs_exc"}

Go(step, exists) == [step |-> step, exists |-> exists, ret |-> "none"]

Return(v) == [step |-> "none", exists |-> FALSE, ret |-> v]

\* The body of setup_script_on_node.
SetupNext(step, exists, out) ==
    CASE step = "ls" ->
            IF out = "exec" THEN Return("true")
            ELSE Go("mkdir", out = "nonexec")
      [] step = "mkdir" -> IF exists THEN Go("chmod", exists) ELSE Go("push_mkdir", exists)
      [] step = "push_mkdir" -> IF out = "open_error" THEN Return("false")
                                ELSE Go("push_write", exists)
      [] step = "push_write" -> IF out = "ok" THEN Go("chmod", exists) ELSE Return("false")
      [] step = "chmod" -> IF out = "ok" THEN Go("verify", exists) ELSE Return("false")
      [] step = "verify" -> IF out = "ok" THEN Return("true") ELSE Return("false")

\* The body of run_retis_on_node.
StartNext(step, out) ==
    CASE step = "systemd_run" -> IF out = "ok" THEN Go("status", FALSE) ELSE Return("false")
      [] step = "status" -> IF out \in {"st_running", "st_done_ok"}
                            THEN Return("true") ELSE Return("false")

\* The bodies of stop_retis_on_node and reset_failed_retis_on_node.
OneCommandNext(out) == IF out = "ok" THEN Return("true") ELSE Return("false")

\* The body of download_results_from_node.
DownloadNext(step, out) ==
    CASE step = "check" -> IF out = "ok" THEN Go("pull", FALSE) ELSE Return("false")
      [] step = "pull" -> IF out = "makedirs_exc" THEN Return("exc")
                          ELSE IF out \in {"ok", "garbage"} THEN Return("true")
                          ELSE Return("false")

\* A body that issues a command again when it has failed.
BodyNext_RetryFailed(kind, step, exists, out) ==
    IF out = "fail" THEN Go(step, exists)
    ELSE CASE kind = "setup" -> SetupNext(step, exists, out)
           [] kind = "start" -> StartNext(step, out)
           [] kind \in {"stop", "reset"} -> OneCommandNext(out)
           [] kind = "download" -> DownloadNext(step, out)

BodyNext(kind, step, exists, out) ==
    CASE kind = "setup" -> SetupNext(step, exists, out)
      [] kind = "start" -> StartNext(step, out)
      [] kind \in {"stop", "reset"} -> OneCommandNext(out)
      [] kind = "download" -> DownloadNext(step, out)

\* The systemd commands of the bodies, as their words: systemd_command
\* (up to the shell command it wraps), stop_command, the status command and
\* reset_command.
UnitCommand(step) ==
    CASE step = "systemd_run" -> <<"systemd-run", "--unit", "RETIS", "--working-directory">>
      [] step = "stop" -> <<"systemctl", "stop", "RETIS">>
      [] step = "status" -> <<"systemctl", "status", "RETIS">>
      [] step = "reset_failed" -> <<"systemctl", "reset-failed">>
      [] OTHER -> <<>>

\* The unit a systemd command names: the value of --unit for systemd-run, the
\* word after the verb for systemctl; "" when it names none (systemctl then
\* acts on every unit).
TargetUnit(cmd) ==
    IF cmd = <<>> THEN ""
    ELSE IF cmd[1] = "systemd-run"
    THEN IF \E i \in 1..(Len(cmd) - 1) : cmd[i] = "--unit"
         THEN cmd[(CHOOSE i \in 1..(Len(cmd) - 1) : cmd[i] = "--unit") + 1]
         ELSE ""
    ELSE IF Len(cmd) >= 3 THEN cmd[3] ELSE ""

\* The pod execute_command addresses for a node: self.active_pods.get(node_name).
ExecTarget(A, node) == A[node]

\* args.working_directory, args.output_file and the local_download_dir main
\* passes ("./"), as sequences of characters.
working_directory == <<"/", "t", "m", "p">>
output_file == <<"e", "v", ".", "j", "s", "o", "n">>
local_download_dir == <<".", "/">>

\* A short name that is the whole node name.
node_short_name_Whole(node) == node

\* node_name.split('.')[0]
node_short_name(node) ==
    IF \E i \in 1..Len(node) : node[i] = "."
    THEN SubSeq(node, 1, (CHOOSE i \in 1..Len(node) :
                            node[i] = "." /\ \A j \in 1..(i - 1) : node[j] # ".") - 1)
    ELSE node

\* f"arc_{node_short_name}_{output_file}"
local_filename(node) ==
    <<"a", "r", "c", "_">> \o node_short_name(node) \o <<"_">> \o output_file

\* os.path.join(local_download_dir, local_filename), for a relative file name
local_filepath(node) ==
    IF local_download_dir = <<>> \/ local_download_dir[Len(local_download_dir)] = "/"
    THEN local_download_dir \o local_filename(node)
    ELSE local_download_dir \o <<"/">> \o local_filename(node)

\* f"{working_directory}/{output_file}"
remote_filepath == working_directory \o <<"/">> \o output_file

\* The local files after a step of operation o met `out`: the pull of a
\* download that decoded a text has written local_filepath, over the file
\* that was there, from the remote file it read.
DiskAfter(o, out) ==
    IF KindOf(o) = "download" /\ task[o].step = "pull" /\ out \in {"ok", "garbage"}
    THEN {d \in disk : d.path # local_filepath(o[2])}
            \cup {[path |-> local_filepath(o[2]), node |-> o[2],
                   remote |-> remote_filepath]}
    ELSE disk

\* The commands of a body, in the order in which it issues them.
StepRank(step) ==
    CASE step \in {"ls", "systemd_run", "stop", "reset_failed", "check"} -> 1
      [] step \in {"mkdir", "status", "pull"} -> 2
      [] step = "push_mkdir" -> 3
      [] step = "push_write" -> 4
      [] step = "chmod" -> 5
      [] step = "verify" -> 6
      [] OTHER -> 0

\* What the script file of the node can be when a set-up is at `step`:
\* "absent", "plain" (present, not executable) or "exec"; the first `ls`
\* finds it in any of the three, later steps as the earlier ones left it.
ScriptStates(o) ==
    IF KindOf(o) = "setup" /\ task[o].step = "ls" THEN {"absent", "plain", "exec"}
    ELSE {task[o].script}

\* The outcomes of the stream that go with the script file being t: `ls`
\* exits zero exactly when the file is there; chmod exits zero only when it
\* is.
ScriptChannels(o, t, alive) ==
    {chan \in ChannelOutcomes(alive) :
        KindOf(o) = "setup" =>
            /\ (task[o].step \in {"ls", "chmod", "verify"} /\ chan = "exit0") => t # "absent"
            /\ (task[o].step \in {"ls", "verify"} /\ chan = "nonzero") => t = "absent"}

\* The texts of the first `ls` that go with the script file being t: the
\* listing shows an x exactly when the file is executable.
ScriptReplies(o, t, chan) ==
    {out \in Replies(task[o].step, chan) :
        (KindOf(o) = "setup" /\ task[o].step = "ls" /\ chan = "exit0") =>
            (out = "exec" <=> t = "exec")}

\* The script file after a command of a set-up: a write that exits zero
\* leaves the file there, a chmod that exits zero leaves it executable.
ScriptAfter(o, t, ex) ==
    IF KindOf(o) # "setup" THEN task[o].script
    ELSE IF task[o].step = "push_write" /\ ex = "exit0" /\ t = "absent" THEN "plain"
    ELSE IF task[o].step = "chmod" /\ ex = "exit0" THEN "exec"
    ELSE t

\* The state of operation o after a step of its body met `out`; ex: the exit
\* status of the command of the step ("none": no command ran to its end);
\* t: the script file of the node before the step.
AfterStep(o, out, ex, t) ==
    LET nb == BodyNext(KindOf(o), task[o].step, task[o].exists, out)
        hit == MadeExec(out)
               /\ \E p \in pods : p.name = ExecTarget(active_pods, o[2]) /\ p.owner # o
    IN  [task EXCEPT ![o].pc = IF nb.ret = "none" THEN "body" ELSE "teardown",
                     ![o].step = nb.step,
                     ![o].exists = nb.exists,
                     ![o].ret = nb.ret,
                     ![o].foreign = @ \/ hit,
                     ![o].nonzero = @ \/ (ex = "nonzero"),
                     ![o].nX = @ + (IF MadeExec(out) THEN 1 ELSE 0),
                     ![o].script = ScriptAfter(o, t, ex)]

\* One step of the body: execute_command (directly, or from copy_file_to_pod /
\* copy_file_from_pod). It raises when the registry has no pod for the node;
\* when it returns False the step has failed ("fail"); else the caller goes
\* by the text.
Exec(o) ==
    /\ o \in DOMAIN task
    /\ task[o].pc = "body"
    /\ LET target == ExecTarget(active_pods, o[2])
       IN  \/ \E out \in LocalOutcomes(task[o].step) :
                    /\ target # NoPod
                    /\ task' = AfterStep(o, out, "none", task[o].script)
                    /\ disk' = disk
           \/ \E t \in ScriptStates(o) :
                \E chan \in ScriptChannels(o, t, Exists(pods, target)) :
                    LET r == execute_command(active_pods, o[2], chan)
                    IN  IF r.raised
                        THEN /\ task' = [task EXCEPT ![o].pc = "teardown", ![o].ret = "exc"]
                             /\ disk' = disk
                        ELSE \E out \in (IF r.success
                                         THEN ScriptReplies(o, t, chan)
                                         ELSE {"fail"}) :
                                /\ task' = AfterStep(o, out, r.exit, t)
                                /\ disk' = DiskAfter(o, out)
    /\ UNCHANGED <<cfgvars, fnvars, nodes, phase, idx, now, pods, active_pods, collected,
                   success_count, summary, sweep, sweep_log, interrupted>>

\* An operation whose handler lets an exception of its body count as success.
OpResult_ExcIsSuccess(ret, delret) == IF ret \in {"true", "exc"} THEN "ok" ELSE "fail"

\* An operation that reports a failed teardown as its own failure.
OpResult_AndTeardown(ret, delret) ==
    IF ret = "true" /\ delret = "true" THEN "ok" ELSE "fail"

\* What the operation returns, given what its body returned ("exc": it raised)
\* and what the delete_debug_pod of debug_pod_context's finally returned.
OpResult(ret, delret) == IF ret = "true" THEN "ok" ELSE "fail"

\* A debug_pod_context that deletes the pod after the yield instead of in a
\* finally: a body that raises leaves the pod.
Teardown_NotFinally(o) ==
    /\ o \in DOMAIN task
    /\ task[o].pc = "teardown"
    /\ \E api \in DeleteOutcomes(pods, task[o].pod) :
        LET skip == task[o].ret \in {"exc", "interrupt"}
            d == IF skip
                 THEN [called |-> FALSE, api |-> "none", ret |-> "none",
                       active |-> active_pods, pods |-> pods]
                 ELSE delete_debug_pod(active_pods, pods, o[2], task[o].pod, api)
        IN  /\ active_pods' = d.active
            /\ pods' = d.pods
            /\ task' = [task EXCEPT
                            ![o].pc = IF task[o].ret = "interrupt" THEN "aborted" ELSE "done",
                            ![o].result = IF task[o].ret = "interrupt" THEN "none"
                                          ELSE IF task[o].ret = "true" THEN "ok" ELSE "fail",
                            ![o].obs = "none", ![o].nonzero = FALSE, ![o].nX = 0,
                            ![o].script = "none",
                            ![o].nD = @ + (IF d.called THEN 1 ELSE 0),
                            ![o].delapi = d.api, ![o].delret = d.ret]
    /\ UNCHANGED <<cfgvars, fnvars, disk, nodes, phase, idx, now, collected, success_count,
                   summary, sweep, sweep_log, interrupted>>

\* debug_pod_context's finally: delete_debug_pod(node_name, pod_name); then the
\* operation returns, or an interrupt goes on to main.
Teardown(o) ==
    /\ o \in DOMAIN task
    /\ task[o].pc = "teardown"
    /\ \E api \in DeleteOutcomes(pods, task[o].pod) :
        LET d == delete_debug_pod(active_pods, pods, o[2], task[o].pod, api)
        IN  /\ active_pods' = d.active
            /\ pods' = d.pods
            /\ task' = [task EXCEPT
                            ![o].pc = IF task[o].ret = "interrupt" THEN "aborted" ELSE "done",
                            ![o].result = IF task[o].ret = "interrupt" THEN "none"
                                          ELSE OpResult(task[o].ret, d.ret),
                            ![o].obs = "none", ![o].nonzero = FALSE, ![o].nX = 0,
                            ![o].script = "none",
                            ![o].nD = @ + (IF d.called THEN 1 ELSE 0),
                            ![o].delapi = d.api, ![o].delret = d.ret]
    /\ UNCHANGED <<cfgvars, fnvars, disk, nodes, phase, idx, now, collected, success_count,
                   summary, sweep, sweep_log, interrupted>>


(***************************************************************************)
(* main                                                                    *)
(***************************************************************************)

\* The connection test: core_v1.get_api_resources(); when it raises, main
\* returns.
Connect ==
    /\ phase = "connect"
    /\ \E reachable \in BOOLEAN :
            phase' = IF reachable THEN "select" ELSE "aborted"
    /\ UNCHANGED <<cfgvars, fnvars, disk, nodes, idx, now, pods, active_pods, task, collected,
                   success_count, summary, sweep, sweep_log, interrupted>>

\* A main without the `if not nodes: return`.
SelectNodes_NoEmptyCheck ==
    /\ phase = "select"
    /\ phase' = IF opkind = "start" THEN "fetch" ELSE "main"
    /\ UNCHANGED <<cfgvars, fnvars, disk, nodes, idx, now, pods, active_pods, task, collected,
                   success_count, summary, sweep, sweep_log, interrupted>>

\* get_nodes_from_kubernetes has answered: with no node main returns; else it
\* goes on to the stop, reset or download loop, or to the start path.
SelectNodes ==
    /\ phase = "select"
    /\ phase' = IF nodes = <<>> THEN "aborted"
                ELSE IF opkind = "start" THEN "fetch" ELSE "main"
    /\ UNCHANGED <<cfgvars, fnvars, disk, nodes, idx, now, pods, active_pods, task, collected,
                   success_count, summary, sweep, sweep_log, interrupted>>

\* The start path fetches the script: download_retis_script_locally, skipped
\* in a dry run; when it fails main returns, before the try of the set-up.
FetchScript ==
    /\ phase = "fetch"
    /\ \E fetched \in (IF dry_run THEN {TRUE} ELSE BOOLEAN) :
            phase' = IF fetched THEN "setup" ELSE "aborted"
    /\ UNCHANGED <<cfgvars, fnvars, disk, nodes, idx, now, pods, active_pods, task, collected,
                   success_count, summary, sweep, sweep_log, interrupted>>

InProgress(o) == task[o].pc \in {"poll", "cfail", "body", "teardown"}

\* list(self.active_pods.items())
Items(A) == {[node |-> n, pod |-> A[n]] : n \in {m \in DOMAIN A : A[m] # NoPod}}

\* An accumulation in which every update writes back the count read before
\* any worker had finished.
Collect_LostUpdate(o) ==
    /\ o \in DOMAIN task
    /\ task[o].pc = "done"
    /\ o \notin collected
    /\ phase = o[1]
    /\ ~interrupted
    /\ collected' = collected \cup {o}
    /\ success_count' = IF o[1] = "main" /\ task[o].result = "ok"
                        THEN 1 ELSE success_count
    /\ idx' = IF phase = "main" /\ parallel THEN idx ELSE idx + 1
    /\ UNCHANGED <<cfgvars, fnvars, disk, nodes, phase, now, pods, active_pods, task, summary,
                   sweep, sweep_log, interrupted>>

\* A main that takes an operation's result without waiting for the operation
\* to leave debug_pod_context.
Collect_NotJoined(o) ==
    /\ o \in DOMAIN task
    /\ task[o].pc \in {"teardown", "done"}
    /\ o \notin collected
    /\ phase = o[1]
    /\ ~interrupted
    /\ collected' = collected \cup {o}
    /\ success_count' = IF o[1] = "main" /\ task[o].ret = "true"
                        THEN success_count + 1 ELSE success_count
    /\ idx' = IF phase = "main" /\ parallel THEN idx ELSE idx + 1
    /\ UNCHANGED <<cfgvars, fnvars, disk, nodes, phase, now, pods, active_pods, task, summary,
                   sweep, sweep_log, interrupted>>

\* main takes an operation's result: the sequential loop's `if success`, or
\* future.result() in the as_completed loop, whose `except Exception` also
\* takes the exception of an operation that raised.
Collect(o) ==
    /\ o \in DOMAIN task
    /\ \/ task[o].pc = "done"
       \/ task[o].pc = "raised" /\ phase = "main" /\ parallel
    /\ o \notin collected
    /\ phase = o[1]
    /\ ~interrupted
    /\ collected' = collected \cup {o}
    /\ success_count' = IF o[1] = "main" /\ task[o].result = "ok"
                        THEN success_count + 1 ELSE success_count
    /\ idx' = IF phase = "main" /\ parallel THEN idx ELSE idx + 1
    /\ UNCHANGED <<cfgvars, fnvars, disk, nodes, phase, now, pods, active_pods, task, summary,
                   sweep, sweep_log, interrupted>>

\* A set-up loop after which capture runs on every selected node.
SetupDone_KeepsFailed ==
    /\ phase = "setup"
    /\ ~interrupted
    /\ idx > Len(nodes)
    /\ phase' = "main"
    /\ idx' = 1
    /\ UNCHANGED <<cfgvars, fnvars, disk, nodes, now, pods, active_pods, task, collected,
                   success_count, summary, sweep, sweep_log, interrupted>>

\* After the set-up loop: the nodes whose set-up failed are removed; with no
\* node left main returns (through its finally).
SetupDone ==
    /\ phase = "setup"
    /\ ~interrupted
    /\ idx > Len(nodes)
    /\ LET failed == {n \in Range(nodes) : task[<<"setup", n>>].result = "fail"}
           Keep(n) == n \notin failed
           left == IF failed # {} /\ ~dry_run THEN SelectSeq(nodes, Keep) ELSE nodes
       IN  /\ nodes' = left
           /\ phase' = IF left = <<>> THEN "cleanup" ELSE "main"
           /\ sweep' = IF left = <<>> THEN Items(active_pods) ELSE sweep
    /\ idx' = 1
    /\ UNCHANGED <<cfgvars, fnvars, disk, now, pods, active_pods, task, collected, success_count,
                   summary, sweep_log, interrupted>>

\* An operation called by a sequential loop raised: the exception leaves
\* main, in the start path through the finally (whose cleanup_all_pods call
\* is inside a try of its own).
Propagate ==
    /\ phase \in {"setup", "main"}
    /\ ~(phase = "main" /\ parallel)
    /\ \E o \in DOMAIN task : o[1] = phase /\ task[o].pc = "raised"
    /\ phase' = "crashed"
    /\ UNCHANGED <<cfgvars, fnvars, disk, nodes, idx, now, pods, active_pods, task, collected,
                   success_count, summary, sweep, sweep_log, interrupted>>

\* The summary, once every node's operation has been collected; the start path
\* then reaches main's finally and cleanup_all_pods.
Summary ==
    /\ phase = "main"
    /\ ~interrupted
    /\ \A n \in Range(nodes) : <<"main", n>> \in collected
    /\ summary' = [printed |-> TRUE, total |-> Len(nodes), succeeded |-> success_count,
                   failed |-> Len(nodes) - success_count, dry |-> dry_run]
    /\ phase' = IF opkind = "start" THEN "cleanup" ELSE "end"
    /\ sweep' = IF opkind = "start" THEN Items(active_pods) ELSE sweep
    /\ UNCHANGED <<cfgvars, fnvars, disk, nodes, idx, now, pods, active_pods, task, collected,
                   success_count, sweep_log, interrupted>>

\* cleanup_all_pods: delete_debug_pod for one item of the registry's snapshot.
SweepStep ==
    /\ phase = "cleanup"
    /\ \E e \in sweep :
        \E api \in DeleteOutcomes(pods, e.pod) :
            LET d == delete_debug_pod(active_pods, pods, e.node, e.pod, api)
            IN  /\ active_pods' = d.active
                /\ pods' = d.pods
                /\ sweep' = sweep \ {e}
                /\ sweep_log' = sweep_log \cup
                        {[node |-> e.node, pod |-> e.pod, api |-> d.api, ret |-> d.ret]}
    /\ UNCHANGED <<cfgvars, fnvars, disk, nodes, phase, idx, now, task, collected, success_count,
                   summary, interrupted>>

SweepDone ==
    /\ phase = "cleanup"
    /\ sweep = {}
    /\ phase' = "end"
    /\ UNCHANGED <<cfgvars, fnvars, disk, nodes, idx, now, pods, active_pods, task, collected,
                   success_count, summary, sweep, sweep_log, interrupted>>

\* A second passes (the clock is read by the per-node work only).
Tick ==
    /\ now < MaxClock
    /\ phase \in {"setup", "main", "cleanup"}
    /\ now' = now + 1
    /\ UNCHANGED <<cfgvars, fnvars, disk, nodes, phase, idx, pods, active_pods, task, collected,
                   success_count, summary, sweep, sweep_log, interrupted>>

\* KeyboardInterrupt in the main thread. In a sequential loop it is raised in
\* the operation under way: inside create_debug_pod's readiness loop it passes
\* `except Exception`, and debug_pod_context's pod_name is still None; inside
\* the body it runs debug_pod_context's finally. In parallel mode it is raised
\* in the as_completed loop, and the executor's exit waits for the workers.
Interrupt ==
    /\ ~interrupted
    /\ ~dry_run
    /\ phase \in {"setup", "main"}
    /\ interrupted' = TRUE
    /\ IF phase = "main" /\ parallel
       THEN UNCHANGED task
       ELSE /\ \A o \in DOMAIN task : task[o].pc \notin {"cfail", "teardown"}
            /\ task' = [o \in DOMAIN task |->
                          CASE task[o].pc = "poll" -> [task[o] EXCEPT !.pc = "aborted"]
                            [] task[o].pc = "body" ->
                                 [task[o] EXCEPT !.pc = "teardown", !.ret = "interrupt"]
                            [] OTHER -> task[o]]
    /\ UNCHANGED <<cfgvars, fnvars, disk, nodes, phase, idx, now, pods, active_pods, collected,
                   success_count, summary, sweep, sweep_log>>

\* The interrupt leaves main: through the finally of the start path
\* (cleanup_all_pods), or straight out of the stop, reset and download paths.
Unwind ==
    /\ interrupted
    /\ phase \in {"setup", "main"}
    /\ \A o \in DOMAIN task : ~InProgress(o)
    /\ phase = "main" /\ parallel =>
            \A n \in Range(nodes) : task[<<"main", n>>].pc # "pending"
    /\ phase' = IF opkind = "start" THEN "cleanup" ELSE "end"
    /\ sweep' = IF opkind = "start" THEN Items(active_pods) ELSE sweep
    /\ UNCHANGED <<cfgvars, fnvars, disk, nodes, idx, now, pods, active_pods, task, collected,
                   success_count, summary, sweep_log, interrupted>>

Next ==
    \/ Connect
    \/ SelectNodes
    \/ FetchScript
    \/ \E o \in DOMAIN task : StartOp(o)
    \/ \E o \in DOMAIN task : Poll(o)
    \/ \E o \in DOMAIN task : CreateFail(o)
    \/ \E o \in DOMAIN task : Exec(o)
    \/ \E o \in DOMAIN task : Teardown(o)
    \/ \E o \in DOMAIN task : Collect(o)
    \/ SetupDone
    \/ Summary
    \/ SweepStep
    \/ SweepDone
    \/ Tick

Spec == Init /\ [][Next]_vars

NextInt == Next \/ Interrupt \/ Unwind

\* The runs in which the process may be interrupted once.
SpecInt == Init /\ [][NextInt]_vars

\* Six nodes, more than MAX_WORKERS, of names that stay distinct as pod names.
PoolNodes == << <<"e">>, <<"f">>, <<"g">>, <<"h">>, <<"i">>, <<"j">> >>

PoolConfig == [kind |-> "stop", parallel |-> TRUE, dry |-> FALSE, sel |-> PoolNodes]

InitPool ==
    /\ InitWith(PoolConfig)
    /\ has_manager = TRUE
    /\ arg = NoArg
    /\ res = NoRes

\* No operation has met a failure, or a command that exited with a non-zero
\* status, before its teardown.
Calm ==
    \A o \in DOMAIN task :
        task[o].pc # "cfail" /\ task[o].ret \in {"none", "true"} /\ ~task[o].nonzero

NextPool ==
    \/ Connect /\ phase' = "select"
    \/ SelectNodes
    \/ \E o \in DOMAIN task : StartOp(o) /\ Calm'
    \/ \E o \in DOMAIN task : Poll(o) /\ Calm'
    \/ \E o \in DOMAIN task : Exec(o) /\ Calm'
    \/ \E o \in DOMAIN task : Teardown(o)
    \/ \E o \in DOMAIN task : Collect(o)
    \/ Summary

\* The runs of a parallel stop over six nodes, within one second, in which
\* every call answers success except, possibly, delete_namespaced_pod.
SpecPool == InitPool /\ [][NextPool]_vars

\* The runs in which the operations are called without a debug_manager (the
\* default of their parameter), within one second.
InitNoManager ==
    /\ \E c \in Configs : InitWith(c)
    /\ has_manager = FALSE
    /\ arg = NoArg
    /\ res = NoRes

NextNoManager ==
    \/ Connect
    \/ SelectNodes
    \/ FetchScript
    \/ \E o \in DOMAIN task : StartOp(o)
    \/ \E o \in DOMAIN task : StartOpNoManager(o)
    \/ \E o \in DOMAIN task : Collect(o)
    \/ Propagate
    \/ SetupDone
    \/ Summary
    \/ SweepDone

SpecNoManager == InitNoManager /\ [][NextNoManager]_vars


(***************************************************************************)
(* Functions applied on their own                                          *)
(***************************************************************************)

\* A function is applied to `arg`, once, and its result is put in `res`;
\* main is not running.
InitFn(args) ==
    /\ InitWith([kind |-> "stop", parallel |-> FALSE, dry |-> TRUE, sel |-> <<>>])
    /\ has_manager = TRUE
    /\ arg \in args
    /\ res = NoRes

mainvars == <<cfgvars, disk, nodes, phase, idx, now, pods, active_pods, task, collected,
              success_count, summary, sweep, sweep_log, interrupted>>

\* The registries execute_command is applied to: over two nodes, each with
\* no entry or with the name of a pod.
ExecRegistries ==
    [{NodeA, NodeD} -> {NoPod, PodName(NodeA, 0), PodName(NodeD, 0), PodName(NodeD, 1)}]

ExecArgs ==
    [fn : {"execute_command"}, registry : ExecRegistries, node : {NodeA, NodeD},
     chan : ChannelOutcomes(TRUE)]

ApplyExecuteCommand ==
    /\ arg.fn = "execute_command"
    /\ res = NoRes
    /\ res' = [fn |-> "execute_command",
               out |-> execute_command(arg.registry, arg.node, arg.chan)]
    /\ UNCHANGED <<mainvars, arg>>

SpecExec == InitFn(ExecArgs) /\ [][ApplyExecuteCommand]_vars

\* ---- File transfer -------------------------------------------------------

\* The longest file content considered, in bytes.
MaxBytes == 4

\* The bytes considered: zero, a newline, a non-ASCII byte.
Bytes == {0, 10, 255}

\* The width at which the base64 command wraps its output (76 in coreutils;
\* narrowed so that contents within MaxBytes give wrapped lines).
WrapCols == 4

Contents == UNION {[1..n -> Bytes] : n \in 0..MaxBytes}

\* A file: absent, or present with its content.
Absent == [exists |-> FALSE, data |-> <<>>]

FileOf(B) == [exists |-> TRUE, data |-> B]

\* Characters of a text: 0..63 are the letters of the base64 alphabet, by
\* value; "=", a newline, another ASCII character, a non-ASCII character.
Pad == 64
NL == 65
Punct == 66
NonAscii == 67

Prefixes(t) == {SubSeq(t, 1, k) : k \in 0..Len(t)}

\* base64.b64encode(file_content).decode('utf-8')
RECURSIVE b64encode(_)
b64encode(B) ==
    IF Len(B) = 0 THEN <<>>
    ELSE IF Len(B) = 1
    THEN <<B[1] \div 4, (B[1] % 4) * 16, Pad, Pad>>
    ELSE IF Len(B) = 2
    THEN <<B[1] \div 4, (B[1] % 4) * 16 + B[2] \div 16, (B[2] % 16) * 4, Pad>>
    ELSE <<B[1] \div 4, (B[1] % 4) * 16 + B[2] \div 16,
           (B[2] % 16) * 4 + B[3] \div 64, B[3] % 64>>
         \o b64encode(SubSeq(B, 4, Len(B)))

\* binascii.a2b_base64 without strict mode, as b64decode(s) calls it: the
\* characters outside the alphabet are skipped; the padding that completes a
\* group ends the decoding; letters left over in an incomplete group are an
\* error.
RECURSIVE a2b_base64(_, _, _, _, _)
a2b_base64(t, quad, pads, left, out) ==
    IF t = <<>> THEN [ok |-> quad = 0, data |-> IF quad = 0 THEN out ELSE <<>>]
    ELSE LET ch == Head(t)
             rest == Tail(t)
         IN  IF ch = Pad
             THEN IF quad >= 2 /\ quad + pads + 1 >= 4
                  THEN [ok |-> TRUE, data |-> out]
                  ELSE a2b_base64(rest, quad, IF quad >= 2 THEN pads + 1 ELSE pads,
                                  left, out)
             ELSE IF ch > Pad THEN a2b_base64(rest, quad, pads, left, out)
             ELSE CASE quad = 0 -> a2b_base64(rest, 1, 0, ch, out)
                    [] quad = 1 -> a2b_base64(rest, 2, 0, ch % 16,
                                              Append(out, left * 4 + ch \div 16))
                    [] quad = 2 -> a2b_base64(rest, 3, 0, ch % 4,
                                              Append(out, left * 16 + ch \div 4))
                    [] quad = 3 -> a2b_base64(rest, 0, 0, 0,
                                              Append(out, left * 64 + ch))

\* base64.b64decode(s) of a str: a non-ASCII character raises ValueError.
b64decode(t) ==
    IF \E i \in 1..Len(t) : t[i] = NonAscii
    THEN [ok |-> FALSE, data |-> <<>>]
    ELSE a2b_base64(t, 0, 0, 0, <<>>)

\* str.strip(), on the white space of these texts.
RECURSIVE strip(_)
strip(t) ==
    IF t = <<>> THEN t
    ELSE IF Head(t) = NL THEN strip(Tail(t))
    ELSE IF t[Len(t)] = NL THEN strip(SubSeq(t, 1, Len(t) - 1))
    ELSE t

\* What the command `base64 <file>` writes: the encoding in lines of
\* WrapCols characters, each ended by a newline.
RECURSIVE Wrap(_)
Wrap(t) ==
    IF t = <<>> THEN <<>>
    ELSE IF Len(t) <= WrapCols THEN t \o <<NL>>
    ELSE SubSeq(t, 1, WrapCols) \o <<NL>> \o Wrap(SubSeq(t, WrapCols + 1, Len(t)))

base64_cli(B) == Wrap(b64encode(B))

\* What the commands `echo '<text>' | base64 -d` write: the decoding of the
\* text and the newline echo adds.
base64_d_cli(t) == b64decode(t \o <<NL>>).data

\* Messages of a base64 command that cannot read its file, by the letters
\* they hold: the count of their alphabet letters depends on the path.
ErrTexts ==
    { <<27, 26, Punct, 44, 28, NL>>,
      <<27, 26, Punct, 63, 44, 28, NL>>,
      <<27, 26, 44, 28, 58, Punct, 63, 44, NL>>,
      <<27, 26, Punct, NonAscii, 63, 44, NonAscii, NL>> }

\* copy_file_to_pod(node_name, local_path, remote_path) on registry A, with
\* the local file src and the remote file `remote`; mkchan and wchan are what
\* the streams of `mkdir -p` and of the write command do, and `part` is what
\* a write command that exits non-zero leaves at the remote path. Gives
\* whether it raised, the bool it returned and the remote file afterwards.
copy_file_to_pod(A, node, src, remote, mkchan, wchan, part) ==
    IF A[node] = NoPod
    THEN [raised |-> TRUE, ret |-> FALSE, remote |-> remote]
    ELSE IF ~src.exists
    THEN [raised |-> FALSE, ret |-> FALSE, remote |-> remote]
    ELSE LET mk == execute_command(A, node, mkchan)
             encoded_content == b64encode(src.data)
             w == execute_command(A, node, wchan)
         IN  [raised |-> FALSE,
              ret |-> w.success,
              remote |-> CASE w.exit = "exit0" -> FileOf(base64_d_cli(encoded_content))
                           [] w.exit = "nonzero" -> part
                           [] OTHER -> remote]

\* copy_file_from_pod(node_name, remote_path, local_path) on registry A, with
\* the local destination `dest`; chan is what the stream of `base64 <source>`
\* does and `text` the text it returns. Gives whether it raised, the bool it
\* returned and the local destination afterwards.
copy_file_from_pod(A, node, dest, chan, text) ==
    IF A[node] = NoPod
    THEN [raised |-> TRUE, ret |-> FALSE, local |-> dest]
    ELSE LET r == execute_command(A, node, chan)
             file_content == b64decode(strip(text))
         IN  IF ~r.success THEN [raised |-> FALSE, ret |-> FALSE, local |-> dest]
             ELSE IF ~file_content.ok
             THEN [raised |-> FALSE, ret |-> FALSE, local |-> dest]
             ELSE [raised |-> FALSE, ret |-> TRUE, local |-> FileOf(file_content.data)]

\* What a write command that exits non-zero can leave at the remote path: the
\* file that was there (the redirection failed), or a part of the content.
Partial(src, remote) ==
    {remote} \cup {FileOf(p) : p \in Prefixes(src.data) \ {src.data}}

\* The texts the stream of `base64 <source>` can return: of a command that
\* exits zero, the encoding of the file, whole or cut short in the transfer;
\* of a command that exits non-zero because the file is absent, a message;
\* nothing when the stream fails.
ReadTexts(remote, chan) ==
    CASE chan = "exit0" ->
            IF remote.exists THEN Prefixes(base64_cli(remote.data)) ELSE {}
      [] chan = "nonzero" -> IF remote.exists THEN {} ELSE ErrTexts
      [] OTHER -> {<<>>}

\* A push of a local file, then a pull of the same remote path to a
\* destination that does not exist yet; the remote path holds no file before.
TransferArgs ==
    [fn : {"transfer"}, has_pod : BOOLEAN,
     src : {Absent} \cup {FileOf(B) : B \in Contents}]

TransferRegistry(has_pod) ==
    [n \in {NodeD} |-> IF has_pod THEN PodName(NodeD, 0) ELSE NoPod]

ApplyCopyToPod ==
    /\ arg.fn = "transfer"
    /\ res = NoRes
    /\ \E mkchan \in ChannelOutcomes(TRUE), wchan \in ChannelOutcomes(TRUE),
          part \in Partial(arg.src, Absent) :
            res' = [fn |-> "copy_file_to_pod",
                    wchan |-> IF arg.has_pod /\ arg.src.exists THEN wchan ELSE "none",
                    out |-> copy_file_to_pod(TransferRegistry(arg.has_pod), NodeD,
                                             arg.src, Absent, mkchan, wchan, part)]
    /\ UNCHANGED <<mainvars, arg>>

ApplyCopyFromPod ==
    /\ res.fn = "copy_file_to_pod"
    /\ \E chan \in ChannelOutcomes(TRUE) :
          \E text \in ReadTexts(res.out.remote, chan) :
            res' = [fn |-> "copy_file_from_pod", pushed |-> res.out.ret,
                    wchan |-> res.wchan, remote |-> res.out.remote,
                    chan |-> chan, text |-> text,
                    out |-> copy_file_from_pod(TransferRegistry(arg.has_pod), NodeD,
                                               Absent, chan, text)]
    /\ UNCHANGED <<mainvars, arg>>

SpecCodec == InitFn(TransferArgs) /\ [][ApplyCopyToPod \/ ApplyCopyFromPod]_vars

\* ---- Status interpretation ------------------------------------------------

\* The most lines a status text has.
MaxLines == 3

\* Lines of the output of `systemctl status RETIS`, as sequences of
\* characters.
LineRunning ==
    <<"A", "c", "t", "i", "v", "e", ":", " ", "a", "c", "t", "i", "v", "e",
      " ", "(", "r", "u", "n", "n", "i", "n", "g", ")">>

LineActiveExited ==
    <<"A", "c", "t", "i", "v", "e", ":", " ", "a", "c", "t", "i", "v", "e",
      " ", "(", "e", "x", "i", "t", "e", "d", ")">>

LineFailed ==
    <<"A", "c", "t", "i", "v", "e", ":", " ", "f", "a", "i", "l", "e", "d",
      " ", "(", "R", "e", "s", "u", "l", "t", ":", " ", "e", "x", "i", "t",
      "-", "c", "o", "d", "e", ")">>

LineInactive ==
    <<"A", "c", "t", "i", "v", "e", ":", " ", "i", "n", "a", "c", "t", "i",
      "v", "e", " ", "(", "d", "e", "a", "d", ")">>

LineActivating ==
    <<"A", "c", "t", "i", "v", "e", ":", " ", "a", "c", "t", "i", "v", "a",
      "t", "i", "n", "g", " ", "(", "s", "t", "a", "r", "t", ")">>

LineExitZero ==
    <<"P", "r", "o", "c", "e", "s", "s", ":", " ", "9", " ", "(", "c", "o",
      "d", "e", "=", "e", "x", "i", "t", "e", "d", ",", " ", "s", "t", "a",
      "t", "u", "s", "=", "0", "/", "S", "U", "C", "C", "E", "S", "S", ")">>

LineExitOne ==
    <<"P", "r", "o", "c", "e", "s", "s", ":", " ", "9", " ", "(", "c", "o",
      "d", "e", "=", "e", "x", "i", "t", "e", "d", ",", " ", "s", "t", "a",
      "t", "u", "s", "=", "1", "/", "F", "A", "I", "L", "U", "R", "E", ")">>

LineLogFailed ==
    <<"r", "e", "t", "i", "s", ":", " ", "F", "a", "i", "l", "e", "d", " ",
      "t", "o", " ", "a", "t", "t", "a", "c", "h", " ", "p", "r", "o", "b",
      "e">>

LineNotFound ==
    <<"U", "n", "i", "t", " ", "R", "E", "T", "I", "S", ".", "s", "e", "r",
      "v", "i", "c", "e", " ", "c", "o", "u", "l", "d", " ", "n", "o", "t",
      " ", "b", "e", " ", "f", "o", "u", "n", "d", ".">>

StatusLines ==
    {LineRunning, LineActiveExited, LineFailed,
     LineInactive, LineActivating, LineExitZero,
     LineExitOne, LineLogFailed, LineNotFound}

\* The lines of a text, each ended by a newline.
RECURSIVE Unlines(_)
Unlines(ls) == IF ls = <<>> THEN <<>> ELSE Head(ls) \o <<"\n">> \o Unlines(Tail(ls))

StatusTexts == {Unlines(ls) : ls \in UNION {[1..n -> StatusLines] : n \in 0..MaxLines}}

UpperCase ==
    <<"A", "B", "C", "D", "E", "F", "G", "H", "I", "J", "K", "L", "M", "N", "O",
      "P", "Q", "R", "S", "T", "U", "V", "W", "X", "Y", "Z">>

LowerCase ==
    <<"a", "b", "c", "d", "e", "f", "g", "h", "i", "j", "k", "l", "m", "n", "o",
      "p", "q", "r", "s", "t", "u", "v", "w", "x", "y", "z">>

\* A lower() that leaves the text as it is.
lower_Identity(t) == t

\* str.lower()
lower(t) ==
    [i \in 1..Len(t) |->
        IF \E k \in 1..Len(UpperCase) : UpperCase[k] = t[i]
        THEN LowerCase[CHOOSE k \in 1..Len(UpperCase) : UpperCase[k] = t[i]]
        ELSE t[i]]

\* needle in text
In(needle, t) ==
    \E i \in 1..(Len(t) - Len(needle) + 1) :
        SubSeq(t, i, i + Len(needle) - 1) = needle

\* The strings the interpretation looks for.
ActiveFailed ==
    <<"a", "c", "t", "i", "v", "e", ":", " ", "f", "a", "i", "l", "e", "d">>

Failed ==
    <<"f", "a", "i", "l", "e", "d">>

ActiveActive ==
    <<"a", "c", "t", "i", "v", "e", ":", " ", "a", "c", "t", "i", "v", "e">>

ActiveInactive ==
    <<"a", "c", "t", "i", "v", "e", ":", " ", "i", "n", "a", "c", "t", "i",
      "v", "e">>

Exited ==
    <<"e", "x", "i", "t", "e", "d">>

ExitedZero ==
    <<"c", "o", "d", "e", "=", "e", "x", "i", "t", "e", "d", ",", " ", "s",
      "t", "a", "t", "u", "s", "=", "0">>

\* An interpretation that looks for the running unit first.
Interpret_RunningFirst(status_stdout) ==
    LET status_output == lower(status_stdout)
    IN  IF status_stdout = <<>> THEN [unit_status |-> "unknown", unit_failed |-> FALSE]
        ELSE IF In(ActiveActive, status_output)
        THEN [unit_status |-> "running", unit_failed |-> FALSE]
        ELSE IF In(ActiveFailed, status_output) \/ In(Failed, status_output)
        THEN [unit_status |-> "failed", unit_failed |-> TRUE]
        ELSE IF In(ActiveInactive, status_output) /\ In(Exited, status_output)
        THEN IF In(ExitedZero, status_output)
             THEN [unit_status |-> "completed successfully", unit_failed |-> FALSE]
             ELSE [unit_status |-> "completed with errors", unit_failed |-> TRUE]
        ELSE [unit_status |-> "unknown", unit_failed |-> FALSE]

\* The interpretation of the status text in run_retis_on_node: unit_status
\* and unit_failed after the if / elif chain.
Interpret(status_stdout) ==
    LET status_output == lower(status_stdout)
    IN  IF status_stdout = <<>> THEN [unit_status |-> "unknown", unit_failed |-> FALSE]
        ELSE IF In(ActiveFailed, status_output) \/ In(Failed, status_output)
        THEN [unit_status |-> "failed", unit_failed |-> TRUE]
        ELSE IF In(ActiveActive, status_output)
        THEN [unit_status |-> "running", unit_failed |-> FALSE]
        ELSE IF In(ActiveInactive, status_output) /\ In(Exited, status_output)
        THEN IF In(ExitedZero, status_output)
             THEN [unit_status |-> "completed successfully", unit_failed |-> FALSE]
             ELSE [unit_status |-> "completed with errors", unit_failed |-> TRUE]
        ELSE [unit_status |-> "unknown", unit_failed |-> FALSE]

\* A return that takes an unclear status for a success.
StatusReturn_UnclearIsSuccess(i) == ~i.unit_failed

\* What run_retis_on_node returns after the interpretation.
StatusReturn(i) ==
    IF i.unit_failed THEN FALSE
    ELSE IF i.unit_status = "running" THEN TRUE
    ELSE IF i.unit_status = "completed successfully" THEN TRUE
    ELSE FALSE

\* The status command of run_retis_on_node on a node with a pod: what its
\* stream does, and the text it returns when it returns one.
StatusArgs ==
    [fn : {"status"}, chan : {"exit0", "nonzero"}, text : StatusTexts]
        \cup [fn : {"status"}, chan : {"setup_fail", "chan_fail", "timeout"},
              text : {<<>>}]

\* systemctl status, the interpretation and the return of run_retis_on_node.
ApplyStatus ==
    /\ arg.fn = "status"
    /\ res = NoRes
    /\ LET r == execute_command(TransferRegistry(TRUE), NodeD, arg.chan)
           status_stdout == IF r.success THEN arg.text ELSE <<>>
           i == Interpret(status_stdout)
       IN  res' = [fn |-> "status", status_success |-> r.success,
                   status_stdout |-> status_stdout,
                   unit_status |-> i.unit_status, unit_failed |-> i.unit_failed,
                   ret |-> StatusReturn(i)]
    /\ UNCHANGED <<mainvars, arg>>

SpecStatus == InitFn(StatusArgs) /\ [][ApplyStatus]_vars

\* ---- The capture command --------------------------------------------------

\* A text here is a sequence of words and of spaces (" ").

\* ' '.join(words)
RECURSIVE JoinSpace(_)
JoinSpace(ws) ==
    IF ws = <<>> THEN <<>>
    ELSE IF Len(ws) = 1 THEN ws
    ELSE <<Head(ws), " ">> \o JoinSpace(Tail(ws))

\* text.split(): the words of a text, without its spaces
SplitSpace(t) == SelectSeq(t, LAMBDA w : w # " ")

\* The --retis-command of a run: not given (None), or a text.
NoCommand == [given |-> FALSE, text |-> <<>>]

CustomCommands ==
    {NoCommand, [given |-> TRUE, text |-> <<>>],
     [given |-> TRUE, text |-> <<"profile", " ", " ", "-a">>]}

\* retis_args: the structured options of a run.
RetisArgs ==
    [output_file : {"events.json", "out.json"},
     allow_system_changes : BOOLEAN, ovs_track : BOOLEAN, stack : BOOLEAN,
     probe_stack : BOOLEAN,
     filter_packet : {"", "tcp port 8080"},
     retis_extra_args : {<<>>, <<"--cmd", " ", " ", "x">>}]

\* A capture command that is built from the structured options whatever
\* custom command is given.
retis_cmd_str_IgnoresCustom(retis_args, custom) ==
    JoinSpace(<<"collect", "-o", retis_args.output_file>>
              \o (IF retis_args.allow_system_changes
                  THEN <<"--allow-system-changes">> ELSE <<>>)
              \o (IF retis_args.ovs_track THEN <<"--ovs-track">> ELSE <<>>)
              \o (IF retis_args.stack THEN <<"--stack">> ELSE <<>>)
              \o (IF retis_args.probe_stack THEN <<"--probe-stack">> ELSE <<>>)
              \o (IF retis_args.filter_packet # ""
                  THEN <<"--filter-packet", "'", retis_args.filter_packet, "'">>
                  ELSE <<>>)
              \o SplitSpace(retis_args.retis_extra_args))

\* retis_cmd_str in run_retis_on_node: the custom command when one is given,
\* else the join of retis_cmd_args.
retis_cmd_str(retis_args, custom) ==
    IF custom.given THEN custom.text
    ELSE JoinSpace(<<"collect", "-o", retis_args.output_file>>
                   \o (IF retis_args.allow_system_changes
                       THEN <<"--allow-system-changes">> ELSE <<>>)
                   \o (IF retis_args.ovs_track THEN <<"--ovs-track">> ELSE <<>>)
                   \o (IF retis_args.stack THEN <<"--stack">> ELSE <<>>)
                   \o (IF retis_args.probe_stack THEN <<"--probe-stack">> ELSE <<>>)
                   \o (IF retis_args.filter_packet # ""
                       THEN <<"--filter-packet", "'", retis_args.filter_packet, "'">>
                       ELSE <<>>)
                   \o SplitSpace(retis_args.retis_extra_args))

\* shell_command and systemd_command of run_retis_on_node(node_name, ...),
\* for the image, tag and working directory of the run.
systemd_command(node_name, retis_args, custom) ==
    <<"systemd-run", " ", "--unit=\"RETIS\"", " ", "--working-directory=/tmp", " ",
      "sh", " ", "-c", " ", "\"",
      "export RETIS_TAG=v1.5.2;", " ", "export RETIS_IMAGE='image';", " ",
      "/tmp/retis_in_container.sh", " ">>
        \o retis_cmd_str(retis_args, custom) \o <<"\"">>

CommandArgs ==
    [fn : {"command"}, node : {NodeA, NodeD}, retis_args : RetisArgs,
     custom : CustomCommands]

ApplyCommand ==
    /\ arg.fn = "command"
    /\ res = NoRes
    /\ res' = [fn |-> "command",
               retis_cmd_str |-> retis_cmd_str(arg.retis_args, arg.custom),
               systemd_command |-> systemd_command(arg.node, arg.retis_args, arg.custom)]
    /\ UNCHANGED <<mainvars, arg>>

SpecCommand == InitFn(CommandArgs) /\ [][ApplyCommand]_vars

\* ---- Mode resolution ------------------------------------------------------

\* The flags of a command line.
ModeArgs ==
    [fn : {"mode"}, start : BOOLEAN, dry_run : BOOLEAN, stop : BOOLEAN,
     reset_failed : BOOLEAN, download_results : BOOLEAN, analyze : BOOLEAN]

\* A resolution in which --dry-run wins over --start.
ResolveMode_DryRunWins(a) ==
    LET is_utility_operation == a.stop \/ a.reset_failed \/ a.download_results
        conflict == \/ a.stop /\ a.reset_failed
                    \/ a.stop /\ a.download_results
                    \/ a.reset_failed /\ a.download_results
                    \/ a.analyze /\ is_utility_operation
    IN  [dry_run |-> a.dry_run \/ ~a.start,
         returned |-> conflict \/ a.analyze,
         kind |-> IF conflict \/ a.analyze THEN "none"
                  ELSE IF a.stop THEN "stop"
                  ELSE IF a.reset_failed THEN "reset"
                  ELSE IF a.download_results THEN "download"
                  ELSE "start"]

\* main from parse_args to the first control-plane call: args.dry_run as it
\* is set, whether main returns before the control plane (conflicting flags,
\* or --analyze), and the operation main goes on to.
ResolveMode(a) ==
    LET is_utility_operation == a.stop \/ a.reset_failed \/ a.download_results
        dry == IF a.start THEN FALSE
               ELSE IF ~a.dry_run /\ ~is_utility_operation THEN TRUE
               ELSE a.dry_run
        conflict == \/ a.stop /\ a.reset_failed
                    \/ a.stop /\ a.download_results
                    \/ a.reset_failed /\ a.download_results
                    \/ a.analyze /\ is_utility_operation
    IN  [dry_run |-> dry,
         returned |-> conflict \/ a.analyze,
         kind |-> IF conflict \/ a.analyze THEN "none"
                  ELSE IF a.stop THEN "stop"
                  ELSE IF a.reset_failed THEN "reset"
                  ELSE IF a.download_results THEN "download"
                  ELSE "start"]

ApplyResolveMode ==
    /\ arg.fn = "mode"
    /\ res = NoRes
    /\ res' = [fn |-> "mode", out |-> ResolveMode(arg)]
    /\ UNCHANGED <<mainvars, arg>>

SpecMode == InitFn(ModeArgs) /\ [][ApplyResolveMode]_vars


(***************************************************************************)
(* The claims                                                              *)
(***************************************************************************)

Ops == DOMAIN task

\* The operation has left debug_pod_context and returned.
Returned(o) == task[o].pc = "done"

\* C1: for every use of debug_pod_context, however its body or
\* create_debug_pod ends, as many delete_namespaced_pod calls as
\* create_namespaced_pod calls have been made when the scope is left, and
\* never more deletes than creates before.
C1_GuaranteedRelease ==
    \A o \in Ops :
        /\ task[o].nD <= task[o].nC
        /\ Returned(o) => task[o].nD = task[o].nC

\* C1's case: a body that raised inside the scope, after one create, has left
\* the scope with one delete made.
C1_Witness ==
    \E o \in Ops :
        /\ Returned(o) /\ task[o].reg /\ task[o].ret = "exc"
        /\ task[o].nC = 1 /\ task[o].nD = 1

C3_InterruptTeardown ==
    (phase = "end" /\ interrupted) =>
        \A o \in Ops :
            task[o].created =>
                \/ task[o].nD >= 1
                \/ \E e \in sweep_log : e.pod = task[o].pod

\* C4: delete_debug_pod returns True when the control plane answers
\* not-found, in the operations and in cleanup_all_pods; called with no pod
\* name for a node without registry entry, it makes no call, returns True and
\* changes nothing; and deleting a pod that no longer exists changes nothing.
C4_IdempotentTeardown ==
    /\ \A o \in Ops : task[o].delapi = "nf" => task[o].delret = "true"
    /\ \A e \in sweep_log : e.api = "nf" => e.ret = "true"
    /\ \A n \in DOMAIN active_pods : \A api \in {"ok", "nf", "err"} :
            active_pods[n] = NoPod =>
                LET d == delete_debug_pod(active_pods, pods, n, NoPod, api)
                IN  ~d.called /\ d.ret = "true" /\ d.active = active_pods /\ d.pods = pods
    /\ \A o \in Ops :
            (task[o].pod # NoPod /\ ~Exists(pods, task[o].pod)) =>
                LET d == delete_debug_pod(active_pods, pods, o[2], task[o].pod, "nf")
                IN  d.ret = "true" /\ d.active = active_pods /\ d.pods = pods

\* C4's case: cleanup_all_pods tears down a context a second time; the
\* operation's own teardown had been answered not-found as well.
C4_Witness ==
    \E e \in sweep_log : \E o \in Ops :
        /\ e.api = "nf" /\ e.ret = "true"
        /\ task[o].pod = e.pod /\ o[2] = e.node
        /\ task[o].delapi = "nf" /\ task[o].delret = "true"

\* C5: a teardown that fails otherwise than by not-found returns failure, and
\* the operation returns what it returns when the teardown succeeds.
C5_TeardownFailureNotMasking ==
    \A o \in Ops :
        /\ task[o].delapi = "err" => task[o].delret = "false"
        /\ (Returned(o) /\ task[o].reg) => task[o].result = OpResult(task[o].ret, "true")
        /\ (Returned(o) /\ task[o].reg /\ task[o].ret = "true") => task[o].result = "ok"

\* C5's case: the body succeeded, the teardown failed, the operation
\* returned success.
C5_Witness ==
    \E o \in Ops :
        /\ Returned(o) /\ task[o].ret = "true"
        /\ task[o].delapi = "err" /\ task[o].delret = "false"
        /\ task[o].result = "ok"

\* C6: create_debug_pod has returned (the body runs) only after the pod was
\* seen Running and ready; after a timeout, a terminal phase or an API error
\* it raises (the operation fails), with one teardown attempted and without
\* the call having entered the pod in the registry.
C6_ReadyOrRaise ==
    \A o \in Ops :
        /\ task[o].pc = "body" => task[o].obs = "ready" /\ task[o].reg
        /\ task[o].obs \in {"timeout", "failed", "succeeded", "apierr"} =>
                task[o].pc = "cfail"
        /\ task[o].pc = "cfail" => ~task[o].reg /\ task[o].nD = 0
        /\ (Returned(o) /\ task[o].nC = 1 /\ ~task[o].reg) =>
                /\ task[o].nD = 1
                /\ task[o].ret = "exc"
                /\ task[o].result = "fail"

\* C6's case: the pod was created, never seen ready, and torn down.
C6_Witness ==
    \E o \in Ops :
        /\ Returned(o) /\ task[o].created /\ ~task[o].reg
        /\ task[o].nD = 1 /\ task[o].delapi = "ok"

\* C7: at most one ready pod per node.
C7_OneReadyPerNode ==
    \A p, q \in pods :
        (p.ready /\ q.ready /\ p.owner[2] = q.owner[2]) => p = q

\* C8: the create calls of a run use pairwise different pod names.
C8_UniquePodNames ==
    \A o1, o2 \in Ops :
        (o1 # o2 /\ task[o1].nC = 1 /\ task[o2].nC = 1) => task[o1].pod # task[o2].pod

\* C9: every pod that became ready and still exists is recorded in the
\* registry, so that cleanup_all_pods issues a delete for it.
C9_RegistryCoversLivePods ==
    \A p \in pods : p.ready => \E n \in DOMAIN active_pods : active_pods[n] = p.name

\* C10: no exec call of an operation has addressed a pod created by another
\* operation.
C10_ExecOwnPod ==
    \A o \in Ops : ~task[o].foreign

\* The steps an operation may take from each position: Pending, the context
\* being acquired ("poll"; "cfail" when it could not be), the commands being
\* issued ("body"), the release ("teardown"), and the return ("done").
PcOrder(from, to) ==
    CASE from = "pending" -> to \in {"pending", "poll", "cfail", "done"}
      [] from = "poll" -> to \in {"poll", "body", "cfail"}
      [] from = "cfail" -> to \in {"cfail", "done"}
      [] from = "body" -> to \in {"body", "teardown"}
      [] from = "teardown" -> to \in {"teardown", "done"}
      [] from = "done" -> to = "done"
      [] OTHER -> FALSE

\* The step issues a command of operation o (the step of its body changes).
IssuesCommand(o) == task[o].step # "none" /\ task'[o].step # task[o].step

\* C11: every operation moves through its positions in order; a command is
\* issued only by an operation whose context was reported ready (and entered
\* in the registry) and whose teardown has not been requested; and main takes
\* an operation's result only after the operation has returned, with the
\* teardown of the pod it asked for attempted.
C11_StepOrder ==
    [][\A o \in Ops :
          /\ PcOrder(task[o].pc, task'[o].pc)
          /\ IssuesCommand(o) =>
                /\ task[o].pc = "body" /\ task[o].obs = "ready" /\ task[o].reg
                /\ task[o].nD = 0 /\ task[o].delret = "none"
          /\ (o \in collected' /\ o \notin collected) =>
                /\ task[o].pc = "done" /\ task[o].result \in {"ok", "fail"}
                /\ task[o].nC = 1 => task[o].nD = 1]_vars

\* C11's case: an operation went through all the positions (context ready,
\* commands issued, released) and main has taken its result.
C11_Witness ==
    \E o \in Ops :
        /\ o \in collected /\ Returned(o)
        /\ task[o].reg /\ task[o].ret \in {"true", "false"} /\ task[o].nD = 1

\* create_debug_pod raised in operation o: the context was not provisioned.
FailedProvisioning(o) == Returned(o) /\ task[o].nC = 1 /\ ~task[o].reg

\* Node k fails context provisioning, whenever the run asks for a context on
\* it, and no operation on another node fails.
OnlyNodeFails(k) ==
    /\ \E o \in Ops : o[2] = k /\ FailedProvisioning(o)
    /\ \A o \in Ops : (o[2] = k /\ task[o].pc # "pending") => FailedProvisioning(o)
    /\ \A o \in Ops : o[2] # k => task[o].result # "fail"

\* C12: when a run over N nodes has ended in which exactly node k failed
\* context provisioning, the operation was carried out on every other node
\* and the summary reports N nodes with one failure.
C12_BatchIsolation ==
    \A k \in Range(selected) :
        (phase = "end" /\ ~dry_run /\ OnlyNodeFails(k)) =>
            /\ \A o \in Ops : o[2] # k => Returned(o) /\ task[o].result = "ok"
            /\ summary.printed
            /\ summary.total = Len(selected)
            /\ summary.failed = 1

\* C13: in parallel mode, while a worker is between the creation of its pod
\* and its own teardown, that pod exists as the worker created it: no other
\* node's operation, failing or not, has removed or replaced it, so that the
\* worker's calls are answered as they would be without the other node.
C13_SiblingsUntouched ==
    (parallel /\ phase = "main") =>
        \A o \in Ops :
            (o[1] = "main" /\ task[o].created /\ task[o].pc \in {"poll", "body"}) =>
                \E p \in pods : p.name = task[o].pod /\ p.owner = o

\* The nodes of the list whose operation returned failure.
FailedNodes == {n \in Range(nodes) : task[<<"main", n>>].result = "fail"}

\* C14: in parallel mode an operation in which an exception was raised has
\* returned failure; the summary is printed only when every node of the list
\* was processed and its result taken, it counts the nodes that failed, and a
\* run that began the parallel operations ends with the summary.
C14_ErrorsStayAtNodeBoundary ==
    parallel =>
        /\ \A o \in Ops : (Returned(o) /\ task[o].ret = "exc") => task[o].result = "fail"
        /\ summary.printed =>
                /\ \A n \in Range(nodes) :
                        Returned(<<"main", n>>) /\ <<"main", n>> \in collected
                /\ summary.failed = Cardinality(FailedNodes)
        /\ (phase = "end" /\ \E o \in Ops : o[1] = "main" /\ task[o].pc # "pending") =>
                summary.printed

\* C14's case: in parallel mode an exception was raised inside the body of
\* one node's operation, another node's operation succeeded, and the summary
\* was printed with one failure.
C14_Witness ==
    /\ parallel /\ summary.printed /\ summary.failed = 1
    /\ \E o1, o2 \in Ops :
            /\ o1[1] = "main" /\ task[o1].reg /\ task[o1].ret = "exc"
            /\ task[o1].result = "fail"
            /\ o2[1] = "main" /\ task[o2].result = "ok"

\* C15: in a dry run no create_namespaced_pod, no delete_namespaced_pod and
\* no exec call is made, by the operations or by cleanup_all_pods: no
\* operation is ever inside debug_pod_context, no pod exists, the registry is
\* empty and the sweep has nothing to delete.
C15_DryRunPurity ==
    dry_run =>
        /\ \A o \in Ops :
                /\ task[o].nC = 0 /\ task[o].nD = 0
                /\ task[o].pc \in {"pending", "done"}
                /\ task[o].step = "none" /\ ~task[o].foreign
        /\ pods = {}
        /\ \A n \in DOMAIN active_pods : active_pods[n] = NoPod
        /\ sweep = {} /\ sweep_log = {}

\* C15's case: a dry run of set-up and capture has ended, after the summary
\* and after cleanup_all_pods.
C15_Witness ==
    /\ dry_run /\ opkind = "start" /\ phase = "end"
    /\ summary.printed /\ summary.dry
    /\ \A o \in Ops : Returned(o) /\ task[o].result = "ok"

\* C16: a dry run over a selection ends with a summary whose total is the
\* number of selected nodes, and a real run over the same selection, whatever
\* fails in it, ends with a summary of that same total.
C16_SameSummaryShape ==
    /\ (dry_run /\ phase = "end") =>
            summary.printed /\ summary.total = Len(selected)
    /\ (~dry_run /\ phase = "end") =>
            summary.printed /\ summary.total = Len(selected)

\* The operations of the summarised kind that returned success.
OkOps == {o \in Ops : o[1] = "main" /\ task[o].result = "ok"}

\* C17: a run that has ended has printed its summary, with
\* succeeded + failed = total, succeeded the number of operations that
\* returned success, and the dry-run marker exactly in a dry run.
C17_AlwaysSummary ==
    phase = "end" =>
        /\ summary.printed
        /\ summary.succeeded + summary.failed = summary.total
        /\ summary.succeeded = Cardinality(OkOps)
        /\ summary.dry = dry_run

\* The workers are running: the ThreadPoolExecutor block of a parallel run.
InPool == parallel /\ phase = "main"

\* C18 as stated: the workers share no mutable state other than the
\* accumulator, so the one registry of the manager that all of them hold is
\* written by none of them.
C18_OnlyAccumulatorShared ==
    [][InPool => active_pods' = active_pods]_vars

\* C18 as amended: the workers share the manager's registry, in which a
\* worker's step writes the entry of its own node only; no worker's step
\* writes the success count, which main updates as it takes each result: at
\* every point it is the number of results taken that are successes, and the
\* summary's count is the number of operations that returned success.
C18_RegistrySharedAccumulatorSafe ==
    /\ [](parallel =>
            /\ success_count =
                    Cardinality({o \in collected : o[1] = "main" /\ task[o].result = "ok"})
            /\ summary.printed => summary.succeeded = Cardinality(OkOps))
    /\ [][\A o \in Ops :
            (InPool /\ task'[o] # task[o]) =>
                /\ success_count' = success_count
                /\ \A n \in DOMAIN active_pods :
                        n # o[2] => active_pods'[n] = active_pods[n]]_vars

\* C18's case: two workers of a parallel run registered their pods, both
\* returned success, and the summary counts both.
C18_Witness ==
    /\ parallel /\ summary.printed /\ summary.succeeded = 2
    /\ \E o1, o2 \in Ops :
            /\ o1 # o2 /\ o1[1] = "main" /\ o2[1] = "main"
            /\ task[o1].reg /\ task[o2].reg
            /\ task[o1].result = "ok" /\ task[o2].result = "ok"

\* min(len(nodes), 5)
PoolSize == Min(Len(nodes), MAX_WORKERS)

\* C19 as stated: while the pool runs, at most min(N, 5) operations are in
\* progress and at most min(N, 5) pods of the run exist.
C19_PodsWithinPool ==
    InPool =>
        /\ Running <= PoolSize
        /\ Cardinality(pods) <= PoolSize

\* C19 as amended: while the pool runs, at most min(N, 5) operations are in
\* progress, and at most min(N, 5) pods exist that belong to an operation in
\* progress (a pod whose teardown failed may exist besides them).
C19_PoolBound ==
    InPool =>
        /\ Running <= PoolSize
        /\ Cardinality({p \in pods : InProgress(p.owner)}) <= PoolSize

\* C19's case: of six nodes, five have their operation in progress, each with
\* its pod, and the sixth waits for a worker.
C19_Witness ==
    /\ InPool /\ Len(nodes) = 6 /\ Running = 5
    /\ Cardinality({p \in pods : InProgress(p.owner)}) = 5
    /\ \E o \in Ops : task[o].pc = "pending"

\* In a sequential run the operations of the loop under way are taken in
\* the order of the node list: when the operation on a later node has made
\* its first call, the operation on every earlier node has returned, with the
\* teardown of the pod it asked for attempted, and main has taken its result.
InSelectionOrder ==
    phase \in {"setup", "main"} =>
        \A i, j \in 1..Len(nodes) :
            (i < j /\ task[<<phase, nodes[j]>>].pc # "pending") =>
                LET a == <<phase, nodes[i]>>
                IN  /\ Returned(a) /\ a \in collected
                    /\ task[a].nC = 1 => task[a].nD = 1

\* C20 as stated: in sequential mode the nodes are processed one at a time
\* in selection order, and at most one pod of the run exists at any time.
C20_OneContextAtATime ==
    ~parallel =>
        /\ Running <= 1
        /\ InSelectionOrder
        /\ Cardinality(pods) <= 1

\* C20 as amended: in sequential mode the nodes are processed one at a time
\* in selection order, and at most one pod exists that belongs to an
\* operation in progress (a pod whose teardown failed may exist besides it).
C20_OneAtATime ==
    ~parallel =>
        /\ Running <= 1
        /\ InSelectionOrder
        /\ Cardinality({p \in pods : InProgress(p.owner)}) <= 1

\* C20's case: in a sequential run the operation on the second node holds
\* its pod, after the operation on the first node created its pod, tore it
\* down and returned.
C20_Witness ==
    /\ ~parallel /\ ~dry_run /\ Len(nodes) = 2
    /\ LET a == <<phase, nodes[1]>>
           b == <<phase, nodes[2]>>
       IN  /\ phase \in {"setup", "main"}
           /\ Returned(a) /\ task[a].created /\ task[a].nD = 1
           /\ task[b].pc = "body"
           /\ \E p \in pods : p.owner = b

\* No per-node work was done: no operation has begun, no pod was created, the
\* registry is empty, and nothing was swept, collected or summarised.
NoWorkDone ==
    /\ \A o \in Ops : task[o] = InitTask
    /\ pods = {}
    /\ \A n \in DOMAIN active_pods : active_pods[n] = NoPod
    /\ sweep_log = {} /\ collected = {} /\ ~summary.printed

\* C21: up to the node selection, and when main has returned because the
\* control plane could not be reached or no node was selected, no per-node
\* work was done; a run with an empty selection never gets past the
\* selection; and after that return the run takes no further step.
C21_FatalBeforeWork ==
    /\ [](/\ phase \in {"connect", "select", "fetch", "aborted"} => NoWorkDone
          /\ selected = <<>> => phase \in {"connect", "select", "aborted"})
    /\ [][phase # "aborted"]_vars

\* C21's case: the connection test of a stop run failed, with two nodes that
\* the selection would have returned.
C21_Witness ==
    /\ phase = "aborted" /\ opkind = "stop" /\ ~dry_run /\ Len(selected) = 2
    /\ NoWorkDone

\* C22: in a real run whose operations have no debug_manager, no operation
\* returns an ordinary result, no second operation is begun after the first,
\* and the run does not go on to its summary.
C22_MissingManagerIsFatal ==
    (~has_manager /\ ~dry_run) =>
        /\ \A o \in Ops : task[o].pc # "done"
        /\ Cardinality({o \in Ops : task[o].pc # "pending"}) <= 1
        /\ ~summary.printed

\* C23: execute_command raises exactly when the registry has no pod for the
\* node, and then makes no exec call; when the channel cannot be set up, fails
\* or times out it does not raise and returns (False, "", stderr) with a
\* non-empty stderr.
C23_FailuresAreReturned ==
    res.fn = "execute_command" =>
        LET r == res.out
        IN  /\ r.raised <=> arg.registry[arg.node] = NoPod
            /\ r.raised => ~r.called
            /\ (~r.raised /\ arg.chan \in {"setup_fail", "chan_fail", "timeout"}) =>
                    /\ ~r.success
                    /\ r.stdout = ""
                    /\ r.stderr # ""

C23_Witness ==
    /\ res.fn = "execute_command"
    /\ arg.chan = "timeout"
    /\ arg.registry[arg.node] # NoPod
    /\ ~res.out.raised
    /\ res.out.called
    /\ ~res.out.success

\* C24: a stop or reset-failed whose one command exited with a non-zero
\* status does not return success.
C24_NonZeroIsFailure ==
    \A o \in Ops :
        (KindOf(o) \in {"stop", "reset"} /\ task[o].nonzero) => task[o].ret # "true"

\* C25: when a push of content B and the pull that follows both return
\* True, the local file the pull wrote holds exactly B.
C25_RoundTrip ==
    (res.fn = "copy_file_from_pod" /\ res.pushed /\ res.out.ret) =>
        res.out.local = arg.src

\* C26: a pull of an absent remote source returns False, a pull whose text
\* does not decode returns False, neither creates the local file, and the
\* two returned values differ.
C26_PullFailures ==
    res.fn = "copy_file_from_pod" /\ ~res.out.raised =>
        LET absent == res.chan = "nonzero"
            undecodable == res.chan = "exit0" /\ ~b64decode(strip(res.text)).ok
        IN  /\ (absent \/ undecodable) => ~res.out.ret /\ res.out.local = Absent
            /\ \A t \in ErrTexts :
                   undecodable =>
                       copy_file_from_pod(TransferRegistry(TRUE), NodeD, Absent,
                                          "nonzero", t).ret # res.out.ret

\* The status text that was interpreted holds the line l.
HasLine(l) == In(l, res.status_stdout)

SaysFailed == HasLine(LineFailed) \/ HasLine(LineLogFailed)

SaysActive == HasLine(LineRunning) \/ HasLine(LineActiveExited)

SaysExited == HasLine(LineExitZero) \/ HasLine(LineExitOne)

\* C27: the interpretation gives one of the five states for every text, the
\* empty one included: running for "Active: active (running)", failed for
\* "Active: failed", completed successfully for inactive and exited with
\* status=0/SUCCESS, completed with errors for inactive and exited with
\* status=1/FAILURE, unknown for a text that holds none of these.
C27_InterpretationTotal ==
    res.fn = "status" =>
        /\ res.unit_status \in {"running", "failed", "completed successfully",
                                "completed with errors", "unknown"}
        /\ res.unit_failed \in BOOLEAN
        /\ (HasLine(LineRunning) /\ ~SaysFailed) => res.unit_status = "running"
        /\ HasLine(LineFailed) => res.unit_status = "failed"
        /\ (HasLine(LineInactive) /\ HasLine(LineExitZero) /\ ~SaysFailed /\ ~SaysActive)
               => res.unit_status = "completed successfully"
        /\ (HasLine(LineInactive) /\ HasLine(LineExitOne) /\ ~HasLine(LineExitZero)
              /\ ~SaysFailed /\ ~SaysActive)
               => res.unit_status = "completed with errors"
        /\ (~SaysFailed /\ ~SaysActive /\ ~HasLine(LineInactive))
               => res.unit_status = "unknown"
        /\ res.status_stdout = <<>> => res.unit_status = "unknown"

C27_Witness ==
    /\ res.fn = "status"
    /\ HasLine(LineInactive)
    /\ HasLine(LineExitOne)
    /\ HasLine(LineNotFound)
    /\ res.unit_status = "completed with errors"

\* C28: a text with a failure indication is failed whatever else it holds;
\* else a text with an active indication is running, an exited indication
\* or not; else an inactive and exited text is completed successfully with
\* the zero-exit marker and completed with errors without it; else unknown.
C28_PriorityOrder ==
    res.fn = "status" =>
        res.unit_status =
            IF SaysFailed THEN "failed"
            ELSE IF SaysActive THEN "running"
            ELSE IF HasLine(LineInactive) /\ SaysExited
            THEN IF HasLine(LineExitZero) THEN "completed successfully"
                 ELSE "completed with errors"
            ELSE "unknown"

C28_Witness ==
    /\ res.fn = "status"
    /\ HasLine(LineRunning)
    /\ HasLine(LineExitZero)
    /\ HasLine(LineLogFailed)
    /\ res.unit_status = "failed"

\* C29: run_retis_on_node returns True exactly when the interpreted state is
\* running or completed successfully; a status command that failed or wrote
\* nothing gives unknown, and False.
C29_UnclearIsFailure ==
    res.fn = "status" =>
        /\ res.ret <=> res.unit_status \in {"running", "completed successfully"}
        /\ (~res.status_success \/ res.status_stdout = <<>>) =>
               res.unit_status = "unknown" /\ ~res.ret

C29_Witness ==
    /\ res.fn = "status"
    /\ arg.chan = "timeout"
    /\ ~res.status_success
    /\ res.unit_status = "unknown"
    /\ ~res.ret

\* The commands the body of a kind of operation issues at most.
LastRank(kind) ==
    CASE kind = "setup" -> 6
      [] kind \in {"start", "download"} -> 2
      [] OTHER -> 1

\* Each operation makes at most one create_namespaced_pod call and issues
\* each of its commands at most once: a command is preceded by fewer
\* commands than its place in the body.
EachStepOnce ==
    \A o \in Ops :
        /\ task[o].nC <= 1
        /\ task[o].pc = "body" => task[o].nX < StepRank(task[o].step)
        /\ task[o].nX <= LastRank(KindOf(o))

\* C30 as stated: nothing is done twice, and no pod is the target of two
\* delete_namespaced_pod calls, be they of operations or of cleanup_all_pods.
C30_OneDeletePerPod ==
    /\ EachStepOnce
    /\ \A o \in Ops : task[o].nD <= 1
    /\ \A o1, o2 \in Ops :
           (o1 # o2 /\ task[o1].nD = 1 /\ task[o2].nD = 1) => task[o1].pod # task[o2].pod
    /\ \A o \in Ops : \A e \in sweep_log : task[o].nD = 1 => task[o].pod # e.pod
    /\ \A e1, e2 \in sweep_log : e1 # e2 => e1.pod # e2.pod

\* C30: nothing is done twice by an operation: at most one create call, each
\* command at most once, at most one delete_namespaced_pod call; and
\* cleanup_all_pods makes at most one delete call for each node of the
\* registry.
C30_NoRetry ==
    /\ EachStepOnce
    /\ \A o \in Ops : task[o].nD <= 1
    /\ \A e1, e2 \in sweep_log : e1 # e2 => e1.node # e2.node

\* A pod whose delete failed in the teardown of its operation is the target
\* of a second delete call, in cleanup_all_pods.
C30_Witness ==
    \E o \in Ops : \E e \in sweep_log :
        /\ task[o].nX = 0 /\ Returned(o)
        /\ task[o].nC = 1 /\ task[o].nD = 1 /\ task[o].delapi = "err"
        /\ e.node = o[2] /\ e.pod = task[o].pod

\* C31: the systemd command an operation is about to issue (start, stop,
\* status, reset-failed) names the unit RETIS.
C31_FixedUnitName ==
    \A o \in Ops :
        (task[o].pc = "body"
           /\ task[o].step \in {"systemd_run", "stop", "status", "reset_failed"}) =>
            TargetUnit(UnitCommand(task[o].step)) = "RETIS"

\* sh is the node name up to its first '.'.
IsShortName(sh, node) ==
    /\ sh \in Prefixes(node)
    /\ \A i \in 1..Len(sh) : sh[i] # "."
    /\ Len(sh) = Len(node) \/ node[Len(sh) + 1] = "."

\* The path ./arc_<sh>_<output_file>.
ArcPath(sh) == <<".", "/", "a", "r", "c", "_">> \o sh \o <<"_">> \o output_file

\* Operation o is a download that has reported success in a real run.
Downloaded(o) ==
    /\ KindOf(o) = "download"
    /\ ~dry_run
    /\ task[o].ret = "true" \/ task[o].result = "ok"

\* C32: every file a download wrote is ./arc_<short name>_<output_file> for
\* the name of its node up to the first '.', and was read from
\* <working_directory>/<output_file>; a download of a real run that reports
\* success has its local file on disk.
C32_DeterministicName ==
    /\ \A d \in disk :
           /\ \E sh \in Prefixes(d.node) : IsShortName(sh, d.node) /\ d.path = ArcPath(sh)
           /\ d.remote = working_directory \o <<"/">> \o output_file
    /\ \A o \in Ops :
           Downloaded(o) =>
               \E d \in disk : \E sh \in Prefixes(o[2]) :
                   IsShortName(sh, o[2]) /\ d.path = ArcPath(sh)

C32_Witness ==
    /\ opkind = "download"
    /\ phase = "end"
    /\ selected = <<NodeA, NodeD>>
    /\ Downloaded(<<"main", NodeA>>)
    /\ Downloaded(<<"main", NodeD>>)
    /\ \E d \in disk : d.node = NodeA /\ d.path = ArcPath(<<"a">>)

\* C39: two nodes that have reported their download in one run have two
\* local files, each holding the result of its node.
C39_DistinctLocalFiles ==
    \A o \in Ops :
        Downloaded(o) => \E d \in disk : d.path = local_filepath(o[2]) /\ d.node = o[2]

\* The flags of the capture command, in the order the command gives them.
EnabledFlags(a) ==
    SelectSeq(<<"--allow-system-changes", "--ovs-track", "--stack", "--probe-stack">>,
              LAMBDA f : \/ f = "--allow-system-changes" /\ a.allow_system_changes
                         \/ f = "--ovs-track" /\ a.ovs_track
                         \/ f = "--stack" /\ a.stack
                         \/ f = "--probe-stack" /\ a.probe_stack)

\* t ends with the text u followed by the closing quote.
EndsQuoted(t, u) ==
    /\ Len(t) >= Len(u) + 2
    /\ SubSeq(t, Len(t) - Len(u), Len(t)) = u \o <<"\"">>
    /\ t[Len(t) - Len(u) - 1] = " "

\* C33: a custom command is the capture command as given, whatever the
\* structured options are; without one the words of the command are collect,
\* -o, the output file, the enabled flags, the quoted packet filter when there
\* is one, and the extra arguments; the command line ends with the capture
\* command and is the same for every node.
C33_CommandResolution ==
    res.fn = "command" =>
        /\ arg.custom.given =>
               /\ res.retis_cmd_str = arg.custom.text
               /\ \A a \in RetisArgs :
                      systemd_command(arg.node, a, arg.custom) = res.systemd_command
        /\ ~arg.custom.given =>
               /\ SplitSpace(res.retis_cmd_str) =
                      <<"collect", "-o", arg.retis_args.output_file>>
                          \o EnabledFlags(arg.retis_args)
                          \o (IF arg.retis_args.filter_packet = "" THEN <<>>
                              ELSE <<"--filter-packet", "'",
                                     arg.retis_args.filter_packet, "'">>)
                          \o SplitSpace(arg.retis_args.retis_extra_args)
               /\ res.retis_cmd_str = JoinSpace(SplitSpace(res.retis_cmd_str))
        /\ EndsQuoted(res.systemd_command, res.retis_cmd_str)
        /\ \A n \in {NodeA, NodeD} :
               systemd_command(n, arg.retis_args, arg.custom) = res.systemd_command

C33_Witness ==
    /\ res.fn = "command"
    /\ arg.custom = [given |-> TRUE, text |-> <<"profile", " ", " ", "-a">>]
    /\ arg.retis_args.output_file = "out.json"
    /\ ~arg.retis_args.stack
    /\ arg.retis_args.retis_extra_args # <<>>
    /\ res.retis_cmd_str = <<"profile", " ", " ", "-a">>

\* The set-up and the capture operation of node n.
SetupOf(n) == <<"setup", n>>

CaptureOf(n) == <<"main", n>>

\* C34: in a real start run at most one set-up is in progress at a time; a
\* capture is started only when the set-up of every selected node has
\* returned, and only on a node whose set-up succeeded; so when every set-up
\* failed no capture is started.
C34_SetupBeforeCapture ==
    (opkind = "start" /\ ~dry_run) =>
        /\ Cardinality({n \in Range(selected) : InProgress(SetupOf(n))}) <= 1
        /\ \A n \in Range(selected) :
               task[CaptureOf(n)].pc # "pending" =>
                   /\ \A m \in Range(selected) : Returned(SetupOf(m))
                   /\ task[SetupOf(n)].result = "ok"
        /\ (\A m \in Range(selected) : task[SetupOf(m)].result = "fail") =>
               \A n \in Range(selected) : task[CaptureOf(n)].pc = "pending"

C34_Witness ==
    /\ opkind = "start" /\ ~dry_run /\ parallel
    /\ selected = <<NodeA, NodeB>>
    /\ phase = "end"
    /\ task[SetupOf(NodeA)].result = "fail"
    /\ task[SetupOf(NodeB)].result = "ok"
    /\ task[CaptureOf(NodeA)].pc = "pending"
    /\ Returned(CaptureOf(NodeB))

\* C35: a set-up that returns True leaves the script on the node, and
\* executable; one that found it executable has issued no further command.
C35_SetupPostcondition ==
    \A o \in Ops :
        (KindOf(o) = "setup" /\ task[o].pc = "teardown" /\ task[o].ret = "true") =>
            /\ task[o].script = "exec"
            /\ task[o].nX \in {1, 4, 6}

\* C36: a start run is real exactly when --start is given; --start with
\* --dry-run gives a real run; a stop, reset-failed or download run is real
\* when --dry-run is not given, and is a dry run when --dry-run is given
\* and --start does not override it; two of --stop, --reset-failed and
\* --download-results make main return before the control plane.
C36_ModeResolution ==
    res.fn = "mode" =>
        /\ res.out.kind = "start" => (~res.out.dry_run <=> arg.start)
        /\ (arg.start /\ arg.dry_run) => ~res.out.dry_run
        /\ res.out.kind \in {"stop", "reset", "download"} =>
               /\ ~arg.dry_run => ~res.out.dry_run
               /\ (arg.dry_run /\ ~arg.start) => res.out.dry_run
        /\ (\/ arg.stop /\ arg.reset_failed
            \/ arg.stop /\ arg.download_results
            \/ arg.reset_failed /\ arg.download_results) =>
               res.out.returned /\ res.out.kind = "none"

C36_Witness ==
    /\ res.fn = "mode"
    /\ arg.start /\ arg.dry_run /\ arg.stop
    /\ res.out.kind = "stop"
    /\ ~res.out.dry_run

\* C37: when an operation's delete_debug_pod returns True for the pod that
\* the registry holds for its node, the registry has no entry for the node
\* afterwards; and a registry entry goes only when its own pod was deleted.
C37_DeleteClearsRegistry ==
    [][/\ \A o \in DOMAIN task :
              (/\ o \in DOMAIN task'
               /\ task'[o].nD = task[o].nD + 1
               /\ task'[o].delret = "true"
               /\ active_pods[o[2]] = task[o].pod)
                  => active_pods'[o[2]] = NoPod
        /\ \A n \in DOMAIN active_pods :
              (/\ n \in DOMAIN active_pods'
               /\ active_pods[n] # NoPod
               /\ active_pods'[n] = NoPod)
                  => ~Exists(pods', active_pods[n])]_vars

\* C38: the delete made after a failed create_debug_pod removes only a pod
\* that the same create call made.
C38_FailedCreateDeletesOwnPod ==
    [][\A o \in DOMAIN task :
          (/\ o \in DOMAIN task'
           /\ task[o].pc = "cfail"
           /\ task'[o].pc # "cfail")
              => \A p \in pods \ pods' : p.owner = o]_vars

====
